---- MODULE Spec2Model ----
(***************************************************************************)
(* Position ledger (TradingEngine, src/src/server.js) and the risk         *)
(* manager's monitoring / emergency stop (RiskManager, src/unnamed/        *)
(* part_004), with the start-up sequence of AutonomousAgent                *)
(* (src/unnamed/part_002).                                                 *)
(*                                                                         *)
(* Units.  Prices are in tenths of a currency unit (100.5 is 1005); money  *)
(* is in thousandths (10050 is 10050000).  Sizes are multiples of 10, so   *)
(* the 0.1% fee of every notional is a whole number of thousandths and     *)
(* the arithmetic of the ledger is exact.  stopLoss and takeProfit carry   *)
(* two more decimal digits (price tenths times 100).                       *)
(*                                                                         *)
(* An async method is cut at the awaits that wait for I/O: logAlert        *)
(* appends to the alert log file (AlertSystem.channels.file is always      *)
(* true), so every `await logAlert` lets other callbacks run.  The code    *)
(* between two such awaits is one atomic step.                             *)
(***************************************************************************)
EXTENDS Integers, Sequences, FiniteSets, TLC

\* Bounds of the model.
MaxOpens == 2

\* Configuration defaults and inputs.
InitialCash == 100000000
Leverage == 1
StopLossPercent == 5
TakeProfitPercent == 10
MaxDrawdownNum == 1
MaxDrawdownDen == 5
MaxLeverage == 5
FeeDivisor == 1000

Assets == {"BTC", "ETH"}
Sides == {"LONG", "SHORT"}
Sizes == {100, 1000}

NoData == [price |-> 0, bid |-> 0, ask |-> 0]
\* The snapshot of test/basic.test.js (100, 99.5, 100.5), and one with a
\* spread wider than the stop-loss distance.
TestSnapshot == [price |-> 1000, bid |-> 995, ask |-> 1005]
WideSnapshot == [price |-> 1000, bid |-> 940, ask |-> 1060]
Snapshots == {TestSnapshot, WideSnapshot}
\* A fall to 50 and a rise to 111, past the stop-loss and take-profit of
\* positions entered around 100.
CrashSnapshot == [price |-> 500, bid |-> 495, ask |-> 505]
RallySnapshot == [price |-> 1110, bid |-> 1105, ask |-> 1115]

\* maxPositionSize as a fraction num/den: the default 0.1, and 1.
Configs == { [maxPositionSize |-> [num |-> 1, den |-> 10]],
             [maxPositionSize |-> [num |-> 1, den |-> 1]] }

VARIABLES
    params,         \* TradingEngine.params
    marketData,     \* TradingEngine.marketData: asset -> snapshot or NoData
    positions,      \* TradingEngine.positions: asset -> position id, 0 if absent
    order,          \* insertion order of the keys of the positions Map
    heap,           \* every position object ever created, by id
    portfolio,      \* TradingEngine.portfolio
    performance,    \* TradingEngine.performance
    teInit,         \* TradingEngine.initialize: "pending" or "done"
    teInterval,     \* TradingEngine.monitoringInterval is a live timer
    pcTick,         \* ledger monitoring tick: "idle" or "loop"
    tickIter,       \* entries of order the tick's Map iterator has passed
    rmInit,         \* RiskManager.initialize: "pending" or "done"
    rmListeners,    \* RiskManager listens to positionOpened/positionClosed
    rmInterval,     \* RiskManager.monitoringInterval: timer id, 0 if null
    rmTimers,       \* ids of the risk timers that are scheduled
    monitoringActive, \* RiskManager.monitoring.active
    pcStop,         \* emergencyStop: "idle", "alerted", "loop", "failed",
                    \* "recovered", "done"
    stopIter,       \* entries of order emergencyStop's iterator has passed
    isRunning,      \* AutonomousAgent.isRunning
    pendingOpened,  \* positions whose positionOpened has not been emitted yet
    pendingClosed,  \* positions whose positionClosed has not been emitted yet
    priceHistory,   \* TradingEngine.priceHistory: asset -> the prices pushed
    alerts,         \* AlertSystem.alerts: the alerts held, and how many were logged
    webhook,        \* a notifyHooks call: its delivery loop for each hook URL
    ledgerSum,      \* running sums of what opens debited and closes credited
    lastCall        \* the operation that made the last step, and its outcome

ledger == <<positions, order, heap, portfolio, performance>>
vars == <<params, marketData, positions, order, heap, portfolio, performance,
          teInit, teInterval, pcTick, tickIter, rmInit, rmListeners,
          rmInterval, rmTimers, monitoringActive, pcStop, stopIter, isRunning,
          pendingOpened, pendingClosed, priceHistory, alerts, webhook, ledgerSum,
          lastCall>>

\* A JavaScript number: a finite value (the risk score in hundredths of a
\* point), NaN or -Infinity; NoScore when the call computes no risk score.
Number(v) == [kind |-> "number", value |-> v]
NaN == [kind |-> "NaN", value |-> 0]
NegInfinity == [kind |-> "-Infinity", value |-> 0]
NoScore == [kind |-> "none", value |-> 0]

Call(op, asset, side, size, result, level, message) ==
    [op |-> op, asset |-> asset, side |-> side, size |-> size,
     result |-> result, level |-> level, message |-> message,
     score |-> NoScore, strategy |-> "-", signal |-> "-", risks |-> {},
     drawdown |-> NoScore]

\* The price history of an asset: the prices pushed by updateMarketData,
\* oldest first (snapshots carry no volume).  A specification in which no
\* operation reads the history does not record it: the points of an
\* unrecorded history are unknown to the model.
\* pushes counts the updateMarketData calls made for the asset.
Recorded(points, pushes) == [recorded |-> TRUE, points |-> points, pushes |-> pushes]
Unrecorded == [recorded |-> FALSE, points |-> <<>>, pushes |-> 0]

\* history.push, then history.shift past 1000 points
HistoryLimit == 1000
\* The point just pushed dropped at the limit, not the oldest one.
pushHistory_KeepsOldest(history, data) ==
    IF ~history.recorded THEN history
    ELSE LET pushed == Append(history.points, data.price) IN
         Recorded(IF Len(pushed) > HistoryLimit THEN history.points ELSE pushed,
                  history.pushes + 1)

pushHistory(history, data) ==
    IF ~history.recorded THEN history
    ELSE LET pushed == Append(history.points, data.price) IN
         Recorded(IF Len(pushed) > HistoryLimit THEN Tail(pushed) ELSE pushed,
                  history.pushes + 1)

\* AlertSystem.alerts, as the alerts held (arrival number and level) and the
\* number of logAlert calls made.  Like the price history, the list is
\* recorded only where a property reads it.
AlertLimit == 100

AlertsRecorded(held, logged) == [recorded |-> TRUE, held |-> held, logged |-> logged]
AlertsUnrecorded == [recorded |-> FALSE, held |-> <<>>, logged |-> 0]

\* level.toUpperCase(), on the spellings callers use
toUpperCase(level) ==
    CASE level = "info" -> "INFO"
      [] level = "warning" -> "WARNING"
      [] level = "error" -> "ERROR"
      [] level = "critical" -> "CRITICAL"
      [] OTHER -> level

\* The alert just pushed dropped at the limit, not the oldest one.
pushAlert_KeepsOldest(al, level) ==
    IF ~al.recorded THEN al
    ELSE LET alert == [id |-> al.logged + 1, level |-> toUpperCase(level)]
             pushed == Append(al.held, alert)
         IN  AlertsRecorded(IF Len(pushed) > AlertLimit THEN al.held ELSE pushed,
                            al.logged + 1)

\* this.alerts.push(alert), then this.alerts.shift() past 100 alerts
pushAlert(al, level) ==
    IF ~al.recorded THEN al
    ELSE LET alert == [id |-> al.logged + 1, level |-> toUpperCase(level)]
             pushed == Append(al.held, alert)
         IN  AlertsRecorded(IF Len(pushed) > AlertLimit THEN Tail(pushed) ELSE pushed,
                            al.logged + 1)

\* The list after a step: the alert the step logged, if any, pushed
alertsAfter(al, call) == IF call.level = "-" THEN al ELSE pushAlert(al, call.level)

\* getActiveAlerts(level); level is "null" for the call without argument
getActiveAlerts(al, level) ==
    IF level = "null" THEN al.held
    ELSE SelectSeq(al.held, LAMBDA alert : alert.level = toUpperCase(level))

\* getAlertStats(): total and byLevel
getAlertStats(al) ==
    LET levels == {al.held[i].level : i \in 1..Len(al.held)} IN
    [total |-> Len(al.held),
     byLevel |-> [l \in levels |->
                    Cardinality({i \in 1..Len(al.held) : al.held[i].level = l})]]

\* notifyHooks: the webhook registry, config.webhookMaxRetries and, for each
\* URL of the registry, the loop that delivers to it.
HookUrls == {"hookA", "hookB"}
WebhookMaxRetries == 3

NoDelivery == [pc |-> "none", attempt |-> 0, fetches |-> 0, delivered |-> FALSE]

HooksIdle(maxRetries) ==
    [pc |-> "idle", maxRetries |-> maxRetries, calls |-> [u \in HookUrls |-> NoDelivery]]

\* One attempt more than the retries allow.
retryAllowed_OneMore(attempt, maxRetries) == attempt <= maxRetries + 1

\* attempt <= config.webhookMaxRetries
retryAllowed(attempt, maxRetries) == attempt <= maxRetries

----------------------------------------------------------------------------
\* Pure helpers of the ledger.

RECURSIVE SumOver(_, _)
SumOver(S, f) ==
    IF S = {} THEN 0
    ELSE LET x == CHOOSE y \in S : TRUE IN f[x] + SumOver(S \ {x}, f)

Remove(seq, a) == SelectSeq(seq, LAMBDA x : x # a)
IndexOf(seq, a) == CHOOSE i \in 1..Len(seq) : seq[i] = a
InSeq(seq, a) == \E i \in 1..Len(seq) : seq[i] = a

\* size * price, in thousandths
Value(size, price) == size * price * 100

calculateFees(amount) == amount \div FeeDivisor

\* The stop placed on the profit side.
calculateStopLoss_Mirrored(entryPrice, side) ==
    IF side = "LONG" THEN entryPrice * 100 + entryPrice * StopLossPercent
    ELSE entryPrice * 100 - entryPrice * StopLossPercent

calculateStopLoss(entryPrice, side) ==
    IF side = "LONG" THEN entryPrice * 100 - entryPrice * StopLossPercent
    ELSE entryPrice * 100 + entryPrice * StopLossPercent

calculateTakeProfit(entryPrice, side) ==
    IF side = "LONG" THEN entryPrice * 100 + entryPrice * TakeProfitPercent
    ELSE entryPrice * 100 - entryPrice * TakeProfitPercent

EntryPrice(md, side) == IF side = "LONG" THEN md.ask ELSE md.bid

\* The exit taken on the side of the entry.
ExitPrice_EntrySide(md, side) == IF side = "LONG" THEN md.ask ELSE md.bid

ExitPrice(md, side) == IF side = "LONG" THEN md.bid ELSE md.ask

\* The take-profit checks left out.
shouldClosePosition_StopOnly(md, position) ==
    LET currentPrice == md.price * 100 IN
    \/ position.side = "LONG" /\ currentPrice <= position.stopLoss
    \/ position.side = "SHORT" /\ currentPrice >= position.stopLoss

shouldClosePosition(md, position) ==
    LET currentPrice == md.price * 100 IN
    \/ position.side = "LONG" /\ currentPrice <= position.stopLoss
    \/ position.side = "SHORT" /\ currentPrice >= position.stopLoss
    \/ position.side = "LONG" /\ currentPrice >= position.takeProfit
    \/ position.side = "SHORT" /\ currentPrice <= position.takeProfit

\* The limit taken as the whole cash, maxPositionSize forgotten.
PositionSizeLimitExceeded_WholeCash(positionValue, cash, prm) ==
    positionValue > cash

PositionSizeLimitExceeded(positionValue, cash, prm) ==
    positionValue * prm.maxPositionSize.den > cash * prm.maxPositionSize.num

MarginLimitExceeded(positionValue, pf) ==
    pf.marginUsed + positionValue > pf.cash * Leverage

\* activeOrders is never written, so the max-orders-per-asset check passes
checkRiskLimits(md, size, pf, prm) ==
    LET positionValue == Value(size, md.price) IN
    /\ ~PositionSizeLimitExceeded(positionValue, pf.cash, prm)
    /\ ~MarginLimitExceeded(positionValue, pf)

\* The funds check left out.
InsufficientFunds_Never(positionValue, cash) == FALSE

InsufficientFunds(positionValue, cash) == positionValue > cash

calculateTotalValue(cash, pos, hp, md) ==
    cash + SumOver({a \in Assets : pos[a] # 0 /\ md[a] # NoData},
                   [a \in Assets |->
                      IF pos[a] # 0 THEN Value(hp[pos[a]].size, md[a].price) ELSE 0])

----------------------------------------------------------------------------
\* The engine after its constructor, the price history apart.
\* An engine on which nothing was traded and nothing was started.
NoTrading ==
    /\ params \in Configs
    /\ positions = [a \in Assets |-> 0]
    /\ order = <<>>
    /\ heap = <<>>
    /\ portfolio = [cash |-> InitialCash, marginUsed |-> 0,
                    totalValue |-> 0, peakValue |-> 0]
    /\ performance = [totalTrades |-> 0, winningTrades |-> 0,
                      losingTrades |-> 0, totalPnL |-> 0,
                      winRate |-> [num |-> 0, den |-> 1]]
    /\ teInit = "pending"
    /\ teInterval = FALSE
    /\ pcTick = "idle"
    /\ tickIter = 0
    /\ rmInit = "pending"
    /\ rmListeners = FALSE
    /\ rmInterval = 0
    /\ rmTimers = {}
    /\ monitoringActive = TRUE
    /\ pcStop = "idle"
    /\ stopIter = 0
    /\ isRunning = FALSE
    /\ pendingOpened = {}
    /\ pendingClosed = {}
    /\ ledgerSum = [opens |-> 0, closes |-> 0, duplicate |-> FALSE]

Constructed ==
    /\ NoTrading
    /\ marketData = [a \in Assets |-> NoData]
    /\ lastCall = Call("constructor", "-", "-", 0, 0, "INFO", "initialized")

\* No operation of the ledger, the monitoring ticks or the RiskManager reads
\* the price history; their specifications leave it unrecorded.
Init ==
    /\ Constructed
    /\ priceHistory = [a \in Assets |-> Unrecorded]
    /\ alerts = AlertsUnrecorded
    /\ webhook = HooksIdle(WebhookMaxRetries)

\* The same engine with its price history recorded, for the strategies.
InitStrategy ==
    /\ Constructed
    /\ priceHistory = [a \in Assets |-> Recorded(<<>>, 0)]
    /\ alerts = AlertsUnrecorded
    /\ webhook = HooksIdle(WebhookMaxRetries)

----------------------------------------------------------------------------
\* TradingEngine.openPosition, up to its first await.

\* The debit without the fee.
OpenDebit_NoFee(positionValue, fees) == positionValue

OpenDebit(positionValue, fees) == positionValue + fees

NewPosition(asset, side, size, entryPrice) ==
    [asset |-> asset, side |-> side, size |-> size, entryPrice |-> entryPrice,
     stopLoss |-> calculateStopLoss(entryPrice, side),
     takeProfit |-> calculateTakeProfit(entryPrice, side),
     status |-> "OPEN", pnl |-> 0,
     fees |-> calculateFees(Value(size, entryPrice)),
     exitPrice |-> 0, closes |-> 0]

\* marketData.get(asset) is undefined
MissingMarketData_Ignored(md) == FALSE

MissingMarketData(md) == md = NoData

Rejected == UNCHANGED <<positions, order, heap, portfolio, pendingOpened, ledgerSum, pendingClosed>>

OpenRejected(asset, side, size, level, message) ==
    /\ lastCall' = Call("openPosition", asset, side, size, 0, level, message)
    /\ Rejected

\* The entry replaced by positions.set closed first.
Committed_ClosesReplaced(asset, side, size) ==
    LET md == marketData[asset]
        entryPrice == EntryPrice(md, side)
        positionValue == Value(size, entryPrice)
        position == NewPosition(asset, side, size, entryPrice)
        id == Len(heap) + 1
        kept == IF positions[asset] = 0 THEN heap
                ELSE [heap EXCEPT ![positions[asset]].status = "CLOSED"]
    IN  /\ heap' = Append(kept, position)
        /\ positions' = [positions EXCEPT ![asset] = id]
        /\ order' = IF InSeq(order, asset) THEN order ELSE Append(order, asset)
        /\ portfolio' = [portfolio EXCEPT
                           !.cash = @ - OpenDebit(positionValue, position.fees),
                           !.marginUsed = @ + positionValue]
        /\ pendingOpened' = pendingOpened \cup {id}
        /\ ledgerSum' = [ledgerSum EXCEPT
                           !.opens = @ + positionValue + position.fees,
                           !.duplicate = @ \/ positions[asset] # 0]
        /\ UNCHANGED pendingClosed

Committed(asset, side, size) ==
    LET md == marketData[asset]
        entryPrice == EntryPrice(md, side)
        positionValue == Value(size, entryPrice)
        position == NewPosition(asset, side, size, entryPrice)
        id == Len(heap) + 1
    IN  /\ heap' = Append(heap, position)
        /\ positions' = [positions EXCEPT ![asset] = id]
        /\ order' = IF InSeq(order, asset) THEN order ELSE Append(order, asset)
        /\ portfolio' = [portfolio EXCEPT
                           !.cash = @ - OpenDebit(positionValue, position.fees),
                           !.marginUsed = @ + positionValue]
        /\ pendingOpened' = pendingOpened \cup {id}
        /\ ledgerSum' = [ledgerSum EXCEPT
                           !.opens = @ + positionValue + position.fees,
                           !.duplicate = @ \/ positions[asset] # 0]
        /\ UNCHANGED pendingClosed

OpenCommitted(asset, side, size) ==
    /\ Committed(asset, side, size)
    /\ lastCall' = Call("openPosition", asset, side, size, 1, "INFO", "Opened position")

\* What openPosition does with the order: the alert of the early return
\* it takes, or the commit.  Without market data checkRiskLimits reads
\* marketData.price of undefined; the TypeError is caught, logged as an
\* ERROR, and null is returned.
OpenOutcome(asset, side, size) ==
    LET md == marketData[asset] IN
    IF MissingMarketData(md)
    THEN [ok |-> FALSE, level |-> "ERROR", message |-> "TypeError"]
    ELSE IF ~checkRiskLimits(md, size, portfolio, params)
    THEN [ok |-> FALSE, level |-> "WARNING", message |-> "Risk limit exceeded"]
    ELSE IF InsufficientFunds(Value(size, EntryPrice(md, side)), portfolio.cash)
    THEN [ok |-> FALSE, level |-> "WARNING", message |-> "Insufficient funds"]
    ELSE [ok |-> TRUE, level |-> "INFO", message |-> "Opened position"]

OpenPosition(asset, side, size) ==
    /\ Len(heap) < MaxOpens
    /\ LET o == OpenOutcome(asset, side, size) IN
       IF o.ok THEN OpenCommitted(asset, side, size)
       ELSE OpenRejected(asset, side, size, o.level, o.message)
    /\ UNCHANGED <<priceHistory, params, webhook, marketData, performance, teInit, teInterval, pcTick,
                   tickIter, rmInit, rmListeners, rmInterval, rmTimers,
                   monitoringActive, pcStop, stopIter, isRunning>>
    /\ alerts' = alertsAfter(alerts, lastCall')

----------------------------------------------------------------------------
\* TradingEngine.closePosition, up to its first await, as the values it
\* leaves in the ledger.

ClosingFee(position, exitValue) == position.fees

CloseCredit(exitValue, fees) == exitValue - fees

\* Every close counted as a winning trade.
updatePerformance_AllWin(perf, pnl) ==
    [totalTrades |-> perf.totalTrades + 1,
     winningTrades |-> perf.winningTrades + 1,
     losingTrades |-> perf.losingTrades,
     totalPnL |-> perf.totalPnL + pnl,
     winRate |-> [num |-> perf.winningTrades + 1, den |-> perf.totalTrades + 1]]

\* pnl is position.pnl, net of the fee; winRate = winningTrades /
\* totalTrades as the fraction num/den
updatePerformance(perf, pnl) ==
    [totalTrades |-> perf.totalTrades + 1,
     winningTrades |-> perf.winningTrades + (IF pnl > 0 THEN 1 ELSE 0),
     losingTrades |-> perf.losingTrades + (IF pnl > 0 THEN 0 ELSE 1),
     totalPnL |-> perf.totalPnL + pnl,
     winRate |-> [num |-> perf.winningTrades + (IF pnl > 0 THEN 1 ELSE 0),
                  den |-> perf.totalTrades + 1]]

Closed(asset, data) ==
    LET id == positions[asset]
        position == heap[id]
        md == data[asset]
        exitPrice == ExitPrice(md, position.side)
        exitValue == Value(position.size, exitPrice)
        entryValue == Value(position.size, position.entryPrice)
        pnl == IF position.side = "LONG" THEN exitValue - entryValue
               ELSE entryValue - exitValue
        fee == ClosingFee(position, exitValue)
        cash == portfolio.cash + CloseCredit(exitValue, fee)
        newHeap == [heap EXCEPT ![id] = [@ EXCEPT !.exitPrice = exitPrice,
                                                  !.pnl = pnl - fee,
                                                  !.status = "CLOSED",
                                                  !.closes = @ + 1]]
    IN  [heap |-> newHeap,
         \* calculateTotalValue runs before positions.delete
         portfolio |-> [portfolio EXCEPT
                          !.cash = cash,
                          !.marginUsed = @ - entryValue,
                          !.totalValue = calculateTotalValue(cash, positions, newHeap, data)],
         performance |-> updatePerformance(performance, pnl - fee),
         positions |-> [positions EXCEPT ![asset] = 0],
         order |-> Remove(order, asset),
         ledgerSum |-> [ledgerSum EXCEPT !.closes = @ + exitValue - fee],
         id |-> id]

\* A Map iterator that has passed iter entries, after the entry of asset
\* is deleted.
IterAfterDelete(iter, asset) ==
    IF InSeq(order, asset) /\ IndexOf(order, asset) <= iter THEN iter - 1 ELSE iter

DoClose(asset, data) ==
    LET c == Closed(asset, data) IN
    /\ heap' = c.heap
    /\ portfolio' = c.portfolio
    /\ performance' = c.performance
    /\ positions' = c.positions
    /\ order' = c.order
    /\ ledgerSum' = c.ledgerSum
    /\ pendingClosed' = pendingClosed \cup {c.id}

\* The not-found return counted as a closed trade.
CloseNotFound_CountsTrade(asset) ==
    /\ lastCall' = Call("closePosition", asset, "-", 0, 0, "WARNING", "No position found")
    /\ performance' = updatePerformance(performance, 0)
    /\ UNCHANGED <<positions, order, heap, portfolio, ledgerSum, pendingClosed, tickIter, stopIter>>

\* if (!position): a WARNING and return null
CloseNotFound(asset) ==
    /\ lastCall' = Call("closePosition", asset, "-", 0, 0, "WARNING", "No position found")
    /\ UNCHANGED <<ledger, ledgerSum, pendingClosed, tickIter, stopIter>>

ClosePosition(asset) ==
    /\ IF positions[asset] = 0
       THEN CloseNotFound(asset)
       ELSE /\ DoClose(asset, marketData)
            /\ tickIter' = IterAfterDelete(tickIter, asset)
            /\ stopIter' = IterAfterDelete(stopIter, asset)
            /\ lastCall' = Call("closePosition", asset, "-", 0, 1, "INFO", "Closed position")
    /\ UNCHANGED <<priceHistory, params, webhook, marketData, teInit, teInterval, pcTick, rmInit,
                   rmListeners, rmInterval, rmTimers, monitoringActive, pcStop,
                   isRunning, pendingOpened>>
    /\ alerts' = alertsAfter(alerts, lastCall')

----------------------------------------------------------------------------
\* TradingEngine.updateMarketData, with the close check it triggers.

\* The snapshot stored without the close check.
UpdateMarketData_NoCheck(asset, data) ==
    /\ marketData' = [marketData EXCEPT ![asset] = data]
    /\ priceHistory' = [priceHistory EXCEPT ![asset] = pushHistory(@, data)]
    /\ lastCall' = Call("updateMarketData", "-", "-", 0, 0, "-", "-")
    /\ UNCHANGED <<ledger, ledgerSum, pendingClosed, tickIter, stopIter>>
    /\ UNCHANGED <<params, webhook, teInit, teInterval, pcTick, rmInit, rmListeners,
                   rmInterval, rmTimers, monitoringActive, pcStop, isRunning,
                   pendingOpened>>
    /\ alerts' = alertsAfter(alerts, lastCall')

UpdateMarketData(asset, data) ==
    /\ marketData' = [marketData EXCEPT ![asset] = data]
    /\ priceHistory' = [priceHistory EXCEPT ![asset] = pushHistory(@, data)]
    /\ IF positions[asset] # 0 /\ shouldClosePosition(data, heap[positions[asset]])
       THEN /\ DoClose(asset, [marketData EXCEPT ![asset] = data])
            /\ tickIter' = IterAfterDelete(tickIter, asset)
            /\ stopIter' = IterAfterDelete(stopIter, asset)
            /\ lastCall' = Call("updateMarketData", asset, "-", 0, 1, "INFO", "Closed position")
       ELSE /\ lastCall' = Call("updateMarketData", "-", "-", 0, 0, "-", "-")
            /\ UNCHANGED <<ledger, ledgerSum, pendingClosed, tickIter, stopIter>>
    /\ UNCHANGED <<params, webhook, teInit, teInterval, pcTick, rmInit, rmListeners,
                   rmInterval, rmTimers, monitoringActive, pcStop, isRunning,
                   pendingOpened>>
    /\ alerts' = alertsAfter(alerts, lastCall')

\* shouldClosePosition(asset, this.positions.get(asset)) called from outside:
\* marketData.price of no snapshot and position.side of no position throw
\* a TypeError.
shouldCloseOf(asset) ==
    IF marketData[asset] = NoData \/ positions[asset] = 0 THEN "TypeError"
    ELSE IF shouldClosePosition(marketData[asset], heap[positions[asset]]) THEN "true"
    ELSE "false"

----------------------------------------------------------------------------
\* TradingEngine.initialize after its await, and the ledger's monitoring
\* tick (the setInterval callback of TradingEngine.startMonitoring).

TEInitialize ==
    /\ teInit = "pending"
    /\ teInit' = "done"
    /\ teInterval' = TRUE
    /\ lastCall' = Call("initialize", "-", "-", 0, 0, "INFO", "Trading Engine initialized")
    /\ UNCHANGED <<priceHistory, params, webhook, marketData, ledger, pcTick, tickIter, rmInit,
                   rmListeners, rmInterval, rmTimers, monitoringActive, pcStop,
                   stopIter, isRunning, pendingOpened, ledgerSum, pendingClosed>>
    /\ alerts' = alertsAfter(alerts, lastCall')

\* portfolio after calculateDrawdown: peakValue || currentValue
calculateDrawdownPeak(pf) ==
    LET currentValue == pf.totalValue
        peak == IF pf.peakValue # 0 THEN pf.peakValue ELSE currentValue
    IN  IF currentValue > peak THEN currentValue ELSE peak

\* (peakValue - currentValue) / peakValue as a fraction; 0 / 0 is NaN
calculateDrawdown(pf) ==
    LET peakValue == calculateDrawdownPeak(pf) IN
    IF peakValue = 0 THEN NaN
    ELSE [kind |-> "number", num |-> peakValue - pf.totalValue, den |-> peakValue]

\* calculateDrawdown called on the engine, as the monitoring tick and the
\* callers of the engine do
CalculateDrawdown ==
    /\ portfolio' = [portfolio EXCEPT !.peakValue = calculateDrawdownPeak(portfolio)]
    /\ lastCall' = [Call("calculateDrawdown", "-", "-", 0, 0, "-", "-") EXCEPT
                      !.drawdown = calculateDrawdown(portfolio)]
    /\ UNCHANGED <<positions, order, heap, performance, ledgerSum, pendingClosed,
                   tickIter, stopIter>>
    /\ UNCHANGED <<priceHistory, params, webhook, marketData, teInit, teInterval, pcTick, rmInit,
                   rmListeners, rmInterval, rmTimers, monitoringActive, pcStop,
                   isRunning, pendingOpened>>
    /\ alerts' = alertsAfter(alerts, lastCall')

\* drawdown > maxDrawdown; 0/0 is NaN and compares false
DrawdownExceeded(peakValue, currentValue) ==
    /\ peakValue # 0
    /\ IF peakValue > 0
       THEN (peakValue - currentValue) * MaxDrawdownDen > MaxDrawdownNum * peakValue
       ELSE (peakValue - currentValue) * MaxDrawdownDen < MaxDrawdownNum * peakValue

\* The entries the iterator has not passed whose check closes the position.
\* Every remaining entry closed, whatever its check says.
Closing_All(iter) == (iter + 1)..Len(order)

Closing(iter) ==
    {j \in (iter + 1)..Len(order) :
        shouldClosePosition(marketData[order[j]], heap[positions[order[j]]])}

\* The tick from the iterator position iter: the checks that close nothing
\* only await a settled promise and run on; a check that closes awaits
\* closePosition's logAlert, where the tick is suspended.
TickRun(iter) ==
    IF Closing(iter) # {}
    THEN LET j == CHOOSE k \in Closing(iter) : \A l \in Closing(iter) : k <= l
             asset == order[j]
         IN  /\ DoClose(asset, marketData)
             /\ pcTick' = "loop"
             /\ tickIter' = j - 1
             /\ stopIter' = IterAfterDelete(stopIter, asset)
             /\ lastCall' = Call("monitoringTick", asset, "-", 0, 1, "INFO", "Closed position")
    ELSE LET totalValue == calculateTotalValue(portfolio.cash, positions, heap, marketData)
             peak == calculateDrawdownPeak([portfolio EXCEPT !.totalValue = totalValue])
         IN  /\ portfolio' = [portfolio EXCEPT !.totalValue = totalValue,
                                               !.peakValue = peak]
             /\ pcTick' = "idle"
             /\ tickIter' = 0
             /\ lastCall' = IF DrawdownExceeded(peak, totalValue)
                            THEN Call("monitoringTick", "-", "-", 0, 0, "CRITICAL",
                                      "Maximum drawdown exceeded")
                            ELSE Call("monitoringTick", "-", "-", 0, 0, "-", "-")
             /\ UNCHANGED <<positions, order, heap, performance, ledgerSum, pendingClosed, stopIter>>

TickFire ==
    /\ teInterval
    /\ pcTick = "idle"
    /\ TickRun(0)
    /\ UNCHANGED <<priceHistory, params, webhook, marketData, teInit, teInterval, rmInit, rmListeners,
                   rmInterval, rmTimers, monitoringActive, pcStop, isRunning,
                   pendingOpened>>
    /\ alerts' = alertsAfter(alerts, lastCall')

TickResume ==
    /\ pcTick = "loop"
    /\ TickRun(tickIter)
    /\ UNCHANGED <<priceHistory, params, webhook, marketData, teInit, teInterval, rmInit, rmListeners,
                   rmInterval, rmTimers, monitoringActive, pcStop, isRunning,
                   pendingOpened>>
    /\ alerts' = alertsAfter(alerts, lastCall')

----------------------------------------------------------------------------
\* RiskManager: initialize after its await, the monitoring timer, the
\* positionOpened listener, emergencyStop; AutonomousAgent.start.

InitTimer == 1
StartTimer == 2

\* startMonitoring overwrites the handle without clearing the old timer
startMonitoringTimers(timers, id) == timers \cup {id}

\* stopMonitoring clears the timer the handle names
stopMonitoringTimers(timers, handle) ==
    IF handle # 0 THEN timers \ {handle} ELSE timers

RMInitialize ==
    /\ rmInit = "pending"
    /\ rmInit' = "done"
    /\ rmListeners' = TRUE
    /\ rmTimers' = startMonitoringTimers(rmTimers, InitTimer)
    /\ rmInterval' = InitTimer
    /\ lastCall' = Call("rmInitialize", "-", "-", 0, 0, "INFO", "Risk Manager initialized")
    /\ UNCHANGED <<priceHistory, params, webhook, marketData, ledger, teInit, teInterval, pcTick,
                   tickIter, monitoringActive, pcStop, stopIter, isRunning,
                   pendingOpened, ledgerSum, pendingClosed>>
    /\ alerts' = alertsAfter(alerts, lastCall')

AgentStart ==
    /\ ~isRunning
    /\ isRunning' = TRUE
    /\ rmTimers' = startMonitoringTimers(rmTimers, StartTimer)
    /\ rmInterval' = StartTimer
    /\ lastCall' = Call("agentStart", "-", "-", 0, 0, "INFO", "Autonomous Agent started")
    /\ UNCHANGED <<priceHistory, params, webhook, marketData, ledger, teInit, teInterval, pcTick,
                   tickIter, rmInit, rmListeners, monitoringActive, pcStop,
                   stopIter, pendingOpened, ledgerSum, pendingClosed>>
    /\ alerts' = alertsAfter(alerts, lastCall')

\* RiskManager.history has no portfolioValues, trades or pnl list, so
\* calculateDrawdown, updateDailyPnL and calculateVaR always give 0.
currentDrawdown == 0
dailyPnL == 0
portfolioVar == 0

Min(a, b) == IF a < b THEN a ELSE b

\* Math.max(...Object.values(concentrationRisk)) * 40 for a totalValue that
\* is not 0, in hundredths of a point and capped at 10 points; values are
\* taken in whole currency units.
ConcentrationPoints(pf, pos, hp, md) ==
    LET open == {a \in Assets : pos[a] # 0}
        pv(a) == Value(hp[pos[a]].size,
                       IF md[a] # NoData THEN md[a].price ELSE hp[pos[a]].entryPrice)
        top == CHOOSE a \in open : \A b \in open :
                   IF pf.totalValue > 0 THEN pv(a) >= pv(b) ELSE pv(a) <= pv(b)
    IN  IF pf.totalValue > 0
        THEN IF 4 * pv(top) >= pf.totalValue THEN 1000
             ELSE ((pv(top) \div 1000) * 4000) \div (pf.totalValue \div 1000)
        ELSE 0 - (((pv(top) \div 1000) * 4000) \div (0 - (pf.totalValue \div 1000)))

\* Math.min(100, score): |dailyPnL| / totalValue is 0 / 0 = NaN when
\* totalValue is 0, and Math.max() of no concentration is -Infinity.
calculateRiskScore(pf, pos, hp, md) ==
    IF pf.totalValue = 0 THEN NaN
    ELSE IF \A a \in Assets : pos[a] = 0 THEN NegInfinity
    ELSE Number(Min(10000, Min(4000, currentDrawdown * 200)
                           + Min(3000, dailyPnL * 300)
                           + Min(2000, portfolioVar * 200)
                           + ConcentrationPoints(pf, pos, hp, md)))

\* The setInterval callback of RiskManager.startMonitoring; it reads the
\* ledger and writes only RiskState.  No score reaches the HIGH level, so
\* performRiskAssessment awaits no alert and the callback is one step.
RiskTick ==
    /\ \E t \in rmTimers :
         lastCall' = [Call("riskTick", "-", "-", 0, 1, "-", "-") EXCEPT
                        !.score = calculateRiskScore(portfolio, positions, heap, marketData)]
    /\ UNCHANGED <<priceHistory, params, webhook, marketData, ledger, teInit, teInterval, pcTick,
                   tickIter, rmInit, rmListeners, rmInterval, rmTimers,
                   monitoringActive, pcStop, stopIter, isRunning,
                   pendingOpened, ledgerSum, pendingClosed>>
    /\ alerts' = alertsAfter(alerts, lastCall')

\* calculateCurrentLeverage() > maxLeverage, for totalValue / (totalValue - marginUsed)
checkLeverageRisk(pf) ==
    LET d == pf.totalValue - pf.marginUsed IN
    /\ pf.marginUsed > 0
    /\ \/ d > 0 /\ pf.totalValue > MaxLeverage * d
       \/ d = 0 /\ pf.totalValue > 0
       \/ d < 0 /\ pf.totalValue < MaxLeverage * d

\* riskParams.maxPositionSize 0.1 and maxConcentration 0.25, as 1/den
RiskMaxPositionSizeDen == 10
MaxConcentrationDen == 4

\* value / totalValue > 1/den as JavaScript computes it for a value >= 0:
\* Infinity when totalValue is 0, NaN (false) for 0 / 0
RatioAbove(value, totalValue, den) ==
    IF totalValue > 0 THEN value * den > totalValue
    ELSE totalValue = 0 /\ value > 0

checkPositionSizeRisk(position, pf) ==
    RatioAbove(Value(position.size, position.entryPrice), pf.totalValue,
               RiskMaxPositionSizeDen)

\* The positions Map holds at most one position of the asset.
checkConcentrationRisk(position, pf, pos, hp, md) ==
    LET asset == position.asset
        existing == IF pos[asset] = 0 THEN 0
                    ELSE Value(hp[pos[asset]].size,
                               IF md[asset] # NoData THEN md[asset].price
                               ELSE hp[pos[asset]].entryPrice)
    IN  RatioAbove(existing + Value(position.size, position.entryPrice),
                   pf.totalValue, MaxConcentrationDen)

\* The snapshots carry no volume (marketData.volume || 0), so the liquidity
\* score is 0, under the threshold, for every position of positive value.
checkLiquidityRisk(position, md) ==
    /\ md[position.asset] # NoData
    /\ Value(position.size, position.entryPrice) > 0

\* The severity each check gives its finding.
RiskSeverity ==
    [POSITION_SIZE |-> "HIGH", CONCENTRATION |-> "HIGH", CORRELATION |-> "MEDIUM",
     LIQUIDITY |-> "MEDIUM", LEVERAGE |-> "CRITICAL"]

\* The risks list of checkPositionRisk, by type.  The correlation finding
\* depends on the price histories of the other assets, which this part of
\* the model does not record: it is an input.
positionRisks(position, pf, pos, hp, md, correlated) ==
    {t \in DOMAIN RiskSeverity :
        \/ t = "POSITION_SIZE" /\ checkPositionSizeRisk(position, pf)
        \/ t = "CONCENTRATION" /\ checkConcentrationRisk(position, pf, pos, hp, md)
        \/ t = "CORRELATION" /\ correlated
        \/ t = "LIQUIDITY" /\ checkLiquidityRisk(position, md)
        \/ t = "LEVERAGE" /\ checkLeverageRisk(pf)}

\* Any finding taken as blocking.
shouldBlock_AnyFinding(risks) == risks # {}

\* risks.some(risk => risk.severity === 'CRITICAL')
shouldBlock(risks) == \E t \in risks : RiskSeverity[t] = "CRITICAL"

\* FALSE when a finding blocks the position
checkPositionRisk(risks) == ~shouldBlock(risks)

\* emit('positionOpened') after openPosition's await, and the synchronous
\* part of RiskManager.onPositionOpened
PositionOpened(id) ==
    /\ id \in pendingOpened
    /\ pendingOpened' = pendingOpened \ {id}
    /\ \E correlated \in BOOLEAN :
         LET risks == positionRisks(heap[id], portfolio, positions, heap, marketData,
                                    correlated)
         IN  lastCall' =
               IF ~rmListeners
               THEN Call("positionOpened", "-", "-", 0, id, "-", "no listener")
               ELSE IF checkPositionRisk(risks)
               THEN [Call("positionOpened", "-", "-", 0, id, "-", "checked") EXCEPT
                       !.score = calculateRiskScore(portfolio, positions, heap, marketData),
                       !.risks = risks]
               ELSE [Call("positionOpened", "-", "-", 0, id, "CRITICAL",
                          "Position blocked due to risk limits") EXCEPT
                       !.risks = risks]
    /\ UNCHANGED <<priceHistory, params, webhook, marketData, ledger, teInit, teInterval, pcTick,
                   tickIter, rmInit, rmListeners, rmInterval, rmTimers,
                   monitoringActive, pcStop, stopIter, isRunning, ledgerSum, pendingClosed>>
    /\ alerts' = alertsAfter(alerts, lastCall')

\* emit('positionClosed') after closePosition's await, and
\* RiskManager.onPositionClosed: updateRiskMetrics and performRiskAssessment,
\* which await no alert under the HIGH level
PositionClosed(id) ==
    /\ id \in pendingClosed
    /\ pendingClosed' = pendingClosed \ {id}
    /\ lastCall' =
         IF ~rmListeners
         THEN Call("positionClosed", "-", "-", 0, id, "-", "no listener")
         ELSE [Call("positionClosed", "-", "-", 0, id, "-", "assessed") EXCEPT
                 !.score = calculateRiskScore(portfolio, positions, heap, marketData)]
    /\ UNCHANGED <<priceHistory, params, webhook, marketData, ledger, teInit, teInterval, pcTick,
                   tickIter, rmInit, rmListeners, rmInterval, rmTimers,
                   monitoringActive, pcStop, stopIter, isRunning, pendingOpened, ledgerSum>>
    /\ alerts' = alertsAfter(alerts, lastCall')

EmergencyStopCall ==
    /\ pcStop = "idle"
    /\ pcStop' = "alerted"
    /\ lastCall' = Call("emergencyStop", "-", "-", 0, 0, "CRITICAL", "Emergency stop triggered")
    /\ UNCHANGED <<priceHistory, params, webhook, marketData, ledger, teInit, teInterval, pcTick,
                   tickIter, rmInit, rmListeners, rmInterval, rmTimers,
                   monitoringActive, stopIter, isRunning, pendingOpened,
                   ledgerSum, pendingClosed>>
    /\ alerts' = alertsAfter(alerts, lastCall')

\* The loop of emergencyStop, resumed after an await.  closePosition, resumed
\* after its alert, emits positionClosed; a listener that throws there is
\* caught by closePosition, which awaits logError and returns null
\* ("failed"), and the loop goes on ("recovered" marks a loop that has seen
\* such a failure).
EmergencyStopResume ==
    /\ pcStop \in {"alerted", "loop", "failed", "recovered"}
    /\ \E listenerThrows \in BOOLEAN :
         LET iter == IF pcStop = "alerted" THEN 0 ELSE stopIter
             hadFailure == pcStop \in {"failed", "recovered"}
         IN
         IF listenerThrows
         THEN /\ pcStop \in {"loop", "recovered"}
              /\ pcStop' = "failed"
              /\ lastCall' = Call("emergencyStop", "-", "-", 0, 0, "ERROR",
                                  "closePosition failed")
              /\ UNCHANGED <<ledger, ledgerSum, pendingClosed, tickIter, stopIter,
                             monitoringActive, rmInterval, rmTimers>>
         ELSE IF iter < Len(order)
         THEN LET asset == order[iter + 1] IN
              /\ DoClose(asset, marketData)
              /\ pcStop' = IF hadFailure THEN "recovered" ELSE "loop"
              /\ stopIter' = iter
              /\ tickIter' = IterAfterDelete(tickIter, asset)
              /\ lastCall' = Call("emergencyStop", asset, "-", 0, 1, "INFO", "Closed position")
              /\ UNCHANGED <<monitoringActive, rmInterval, rmTimers>>
         ELSE /\ monitoringActive' = FALSE
              /\ rmTimers' = stopMonitoringTimers(rmTimers, rmInterval)
              /\ rmInterval' = 0
              /\ pcStop' = "done"
              /\ stopIter' = 0
              /\ lastCall' = Call("emergencyStop", "-", "-", 0,
                                  IF hadFailure THEN 1 ELSE 0,
                                  "-", "emergencyStop emitted")
              /\ UNCHANGED <<ledger, ledgerSum, pendingClosed, tickIter>>
    /\ UNCHANGED <<priceHistory, params, webhook, marketData, teInit, teInterval, pcTick, rmInit,
                   rmListeners, isRunning, pendingOpened>>
    /\ alerts' = alertsAfter(alerts, lastCall')

----------------------------------------------------------------------------
\* TradingEngine.executeStrategy, with the momentum, mean-reversion,
\* breakout and swing strategies and the indicators they read.

KnownStrategies == {"momentum", "mean_reversion", "breakout", "scalping", "swing"}

\* What executeStrategy returns: null, a position object, or undefined.
ReturnedNull == 0
ReturnedPosition == 1
ReturnedUndefined == 2

MinHistory == 20
MinOrderSize == 10
\* Sizes are kept to multiples of 10, as everywhere in the ledger.
SizeStep == 10

Max(a, b) == IF a > b THEN a ELSE b

\* Any history taken as long enough.
TooShort_Never(points) == FALSE

\* !history || history.length < 20
TooShort(points) == Len(points) < MinHistory

RECURSIVE Sum(_)
Sum(seq) == IF seq = <<>> THEN 0 ELSE Head(seq) + Sum(Tail(seq))

\* points.slice(-back, -end); slice(-back) when end is 0
Slice(points, back, end) ==
    SubSeq(points, Max(Len(points) - back, 0) + 1, Max(Len(points) - end, 0))

\* (recentAvg - olderAvg) / olderAvg as a fraction num/den with den > 0;
\* 0 under 20 points
calculateMomentum(points) ==
    IF TooShort(points) THEN [num |-> 0, den |-> 1]
    ELSE LET recent == Slice(points, 10, 0)
             older == Slice(points, 20, 10)
         IN  [num |-> Sum(recent) * Len(older) - Sum(older) * Len(recent),
              den |-> Sum(older) * Len(recent)]

\* currentVolume / avgVolume as a fraction; the snapshots carry no volume,
\* so every volume reads as 1 (h.volume || 1)
calculateVolumeTrend(points) ==
    IF TooShort(points) THEN [num |-> 0, den |-> 1]
    ELSE LET volumes == [i \in 1..Len(Slice(points, 10, 0)) |-> 1]
         IN  [num |-> volumes[Len(volumes)] * Len(volumes), den |-> Sum(volumes)]

\* f > n/10 and f < -n/10 for a fraction f
Above(f, n) == 10 * f.num > n * f.den
Below(f, n) == 10 * f.num < 0 - n * f.den

\* The standard deviation of the returns between consecutive points, in
\* thousandths, rounded down; 0 under 20 points
calculateVolatility(points) ==
    IF TooShort(points) THEN 0
    ELSE LET n == Len(points) - 1
             returns == [i \in 1..n |->
                           ((points[i + 1] - points[i]) * 1000) \div points[i]]
             squares == [i \in 1..n |-> returns[i] * returns[i]]
             variance == (n * Sum(squares) - Sum(returns) * Sum(returns)) \div (n * n)
         IN  CHOOSE r \in 0..5000 : r * r <= variance /\ (r + 1) * (r + 1) > variance

\* high * 1.02 and low * 0.98 of the last 20 points, times 100; 0 and 0
\* under 20 points
calculateBreakoutLevel(points) ==
    IF TooShort(points) THEN [upper |-> 0, lower |-> 0]
    ELSE LET prices == Slice(points, 20, 0)
             high == CHOOSE x \in {prices[i] : i \in 1..Len(prices)} :
                         \A i \in 1..Len(prices) : x >= prices[i]
             low == CHOOSE x \in {prices[i] : i \in 1..Len(prices)} :
                        \A i \in 1..Len(prices) : x <= prices[i]
         IN  [upper |-> high * 102, lower |-> low * 98]

\* max(minOrderSize, min(adjustedSize, riskAmount / price)), rounded down
\* to the size step
calculatePositionSize(md, points, pf, prm) ==
    LET volatility == calculateVolatility(points)
        riskAmount == (pf.cash * prm.maxPositionSize.num) \div prm.maxPositionSize.den
        byPrice == riskAmount \div (md.price * 100)
        positionSize == (byPrice * 100) \div StopLossPercent
        adjustedSize == (positionSize * (1000 - volatility)) \div 1000
        size == Max(MinOrderSize, Min(adjustedSize, byPrice))
    IN  (size \div SizeStep) * SizeStep

\* The branch the strategy takes: open a side, close, or nothing.
executeMomentumStrategy(asset, signal) ==
    LET points == priceHistory[asset].points
        momentum == calculateMomentum(points)
        volume == calculateVolumeTrend(points)
    IN  IF signal = "BUY" /\ Above(momentum, 7) /\ Above(volume, 6)
        THEN [act |-> "open", side |-> "LONG"]
        ELSE IF signal = "SELL" /\ Below(momentum, 7) /\ Above(volume, 6)
        THEN [act |-> "open", side |-> "SHORT"]
        ELSE IF positions[asset] # 0
                /\ shouldClosePosition(marketData[asset], heap[positions[asset]])
        THEN [act |-> "close", side |-> "-"]
        ELSE [act |-> "none", side |-> "-"]

executeBreakoutStrategy(asset, signal) ==
    LET breakoutLevel == calculateBreakoutLevel(priceHistory[asset].points)
        currentPrice == marketData[asset].price * 100
    IN  IF signal = "BUY" /\ currentPrice > breakoutLevel.upper
        THEN [act |-> "open", side |-> "LONG"]
        ELSE IF signal = "SELL" /\ currentPrice < breakoutLevel.lower
        THEN [act |-> "open", side |-> "SHORT"]
        ELSE [act |-> "none", side |-> "-"]

\* 20 * (currentPrice - mean) and 400 * variance of the last 20 prices:
\* the z-score is their ratio dev / sqrt(var20), NaN when the prices are
\* all equal (0 / 0); 0 under 20 points
calculateZScore(points) ==
    IF TooShort(points) THEN [kind |-> "number", dev |-> 0, var20 |-> 1]
    ELSE LET prices == Slice(points, 20, 0)
             n == Len(prices)
             squares == [i \in 1..n |-> prices[i] * prices[i]]
             var20 == n * Sum(squares) - Sum(prices) * Sum(prices)
         IN  IF var20 = 0 THEN [kind |-> "NaN", dev |-> 0, var20 |-> 0]
             ELSE [kind |-> "number", dev |-> n * prices[n] - Sum(prices),
                   var20 |-> var20]

\* zScore < -k, zScore > k and |zScore| < 1/2 (k = 2 in the strategy)
ZBelow(z, k) == z.kind = "number" /\ z.dev < 0 /\ z.dev * z.dev > k * k * z.var20
ZAbove(z, k) == z.kind = "number" /\ z.dev > 0 /\ z.dev * z.dev > k * k * z.var20
ZNearZero(z) == z.kind = "number" /\ 4 * z.dev * z.dev < z.var20

RsiPeriod == 14

\* 100 - 100 / (1 + avgGain / avgLoss) = 100 * avgGain / (avgGain + avgLoss)
\* as a fraction; 50 under period + 1 points, 100 when avgLoss is 0, NaN
\* when there is no gain or no loss to average (0 / 0)
calculateRSI(points) ==
    IF Len(points) < RsiPeriod + 1 THEN [kind |-> "number", num |-> 50, den |-> 1]
    ELSE LET change == [i \in 1..RsiPeriod |->
                          points[Len(points) - i + 1] - points[Len(points) - i]]
             up == {i \in 1..RsiPeriod : change[i] > 0}
             down == (1..RsiPeriod) \ up
             gain == SumOver(up, change)
             loss == 0 - SumOver(down, change)
         IN  IF down # {} /\ loss = 0 THEN [kind |-> "number", num |-> 100, den |-> 1]
             ELSE IF up = {} \/ down = {} THEN [kind |-> "NaN", num |-> 0, den |-> 1]
             ELSE [kind |-> "number",
                   num |-> 100 * gain * Cardinality(down),
                   den |-> gain * Cardinality(down) + loss * Cardinality(up)]

RsiBelow(rsi, n) == rsi.kind = "number" /\ rsi.num < n * rsi.den
RsiAbove(rsi, n) == rsi.kind = "number" /\ rsi.num > n * rsi.den

\* The sign of the regression slope over the last 20 points; 0 under 20
calculateTrend(points) ==
    IF TooShort(points) THEN 0
    ELSE LET prices == Slice(points, 20, 0)
             n == Len(prices)
             sumX == Sum([i \in 1..n |-> i - 1])
             sumY == Sum(prices)
             sumXY == Sum([i \in 1..n |-> (i - 1) * prices[i]])
             slope == n * sumXY - sumX * sumY
         IN  IF slope > 0 THEN 1 ELSE IF slope < 0 THEN 0 - 1 ELSE 0

\* low * 1.01 and high * 0.99 of the last 20 points, times 100; 0 under 20
calculateSupportLevel(points) ==
    IF TooShort(points) THEN 0
    ELSE LET prices == Slice(points, 20, 0)
             low == CHOOSE x \in {prices[i] : i \in 1..Len(prices)} :
                        \A i \in 1..Len(prices) : x <= prices[i]
         IN  low * 101

calculateResistanceLevel(points) ==
    IF TooShort(points) THEN 0
    ELSE LET prices == Slice(points, 20, 0)
             high == CHOOSE x \in {prices[i] : i \in 1..Len(prices)} :
                         \A i \in 1..Len(prices) : x >= prices[i]
         IN  high * 99

executeMeanReversionStrategy(asset, signal) ==
    LET points == priceHistory[asset].points
        zScore == calculateZScore(points)
        rsi == calculateRSI(points)
    IN  IF signal = "BUY" /\ ZBelow(zScore, 2) /\ RsiBelow(rsi, 30)
        THEN [act |-> "open", side |-> "LONG"]
        ELSE IF signal = "SELL" /\ ZAbove(zScore, 2) /\ RsiAbove(rsi, 70)
        THEN [act |-> "open", side |-> "SHORT"]
        ELSE IF positions[asset] # 0 /\ ZNearZero(zScore)
        THEN [act |-> "close", side |-> "-"]
        ELSE [act |-> "none", side |-> "-"]

executeSwingStrategy(asset, signal) ==
    LET points == priceHistory[asset].points
        trend == calculateTrend(points)
        support == calculateSupportLevel(points)
        resistance == calculateResistanceLevel(points)
        currentPrice == marketData[asset].price * 100
    IN  IF signal = "BUY" /\ trend > 0 /\ currentPrice > support
        THEN [act |-> "open", side |-> "LONG"]
        ELSE IF signal = "SELL" /\ trend < 0 /\ currentPrice < resistance
        THEN [act |-> "open", side |-> "SHORT"]
        ELSE [act |-> "none", side |-> "-"]

StrategyCall(asset, strategy, signal, side, size, result, level, message) ==
    [Call("executeStrategy", asset, side, size, result, level, message) EXCEPT
        !.strategy = strategy, !.signal = signal]

\* executeStrategy up to its first await: the alert of an early return, or
\* the strategy with the synchronous part of the openPosition or
\* closePosition it calls.
ExecuteStrategy(asset, strategy, signal) ==
    /\ Len(heap) < MaxOpens
    /\ priceHistory[asset].recorded
    /\ IF MissingMarketData(marketData[asset])
       THEN /\ lastCall' = StrategyCall(asset, strategy, signal, "-", 0, ReturnedUndefined,
                                        "WARNING", "No market data available")
            /\ Rejected
            /\ UNCHANGED <<performance, tickIter, stopIter>>
       ELSE IF strategy \notin KnownStrategies
       THEN /\ lastCall' = StrategyCall(asset, strategy, signal, "-", 0, ReturnedUndefined,
                                        "ERROR", "Unknown strategy")
            /\ Rejected
            /\ UNCHANGED <<performance, tickIter, stopIter>>
       ELSE LET d == CASE strategy = "momentum" ->
                              executeMomentumStrategy(asset, signal)
                       [] strategy = "mean_reversion" ->
                              executeMeanReversionStrategy(asset, signal)
                       [] strategy = "breakout" ->
                              executeBreakoutStrategy(asset, signal)
                       [] strategy = "swing" ->
                              executeSwingStrategy(asset, signal)
                size == calculatePositionSize(marketData[asset], priceHistory[asset].points,
                                              portfolio, params)
                o == OpenOutcome(asset, d.side, size)
            IN  IF d.act = "open" /\ o.ok
                THEN /\ Committed(asset, d.side, size)
                     /\ lastCall' = StrategyCall(asset, strategy, signal, d.side, size,
                                                 ReturnedPosition, o.level, o.message)
                     /\ UNCHANGED <<performance, tickIter, stopIter>>
                ELSE IF d.act = "open"
                THEN /\ Rejected
                     /\ lastCall' = StrategyCall(asset, strategy, signal, d.side, size,
                                                 ReturnedNull, o.level, o.message)
                     /\ UNCHANGED <<performance, tickIter, stopIter>>
                ELSE IF d.act = "close"
                THEN /\ DoClose(asset, marketData)
                     /\ tickIter' = IterAfterDelete(tickIter, asset)
                     /\ stopIter' = IterAfterDelete(stopIter, asset)
                     /\ lastCall' = StrategyCall(asset, strategy, signal, "-", 0,
                                                 ReturnedPosition, "INFO", "Closed position")
                     /\ UNCHANGED pendingOpened
                ELSE /\ Rejected
                     /\ lastCall' = StrategyCall(asset, strategy, signal, "-", 0,
                                                 ReturnedUndefined, "-", "-")
                     /\ UNCHANGED <<performance, tickIter, stopIter>>
    /\ UNCHANGED <<priceHistory, params, webhook, marketData, teInit, teInterval, pcTick,
                   rmInit, rmListeners, rmInterval, rmTimers, monitoringActive,
                   pcStop, isRunning>>
    /\ alerts' = alertsAfter(alerts, lastCall')

----------------------------------------------------------------------------
\* Opens, closes and market-data updates of the ledger, on every input.
NextLedger ==
    \/ \E asset \in Assets, side \in Sides, size \in Sizes : OpenPosition(asset, side, size)
    \/ \E asset \in Assets : ClosePosition(asset)
    \/ \E asset \in Assets, data \in Snapshots : UpdateMarketData(asset, data)

Spec == Init /\ [][NextLedger]_vars

\* The ledger with its monitoring tick, the RiskManager and the agent's
\* start-up, on the wide snapshot and two orders.
RiskOrders == { [side |-> "LONG", size |-> 100], [side |-> "SHORT", size |-> 1000] }

Next ==
    \/ \E asset \in Assets, o \in RiskOrders : OpenPosition(asset, o.side, o.size)
    \/ \E asset \in Assets : ClosePosition(asset)
    \/ \E asset \in Assets : UpdateMarketData(asset, WideSnapshot)
    \/ TEInitialize
    \/ TickFire
    \/ TickResume
    \/ RMInitialize
    \/ AgentStart
    \/ RiskTick
    \/ \E id \in 1..MaxOpens : PositionOpened(id)
    \/ EmergencyStopCall
    \/ EmergencyStopResume

SpecRisk == Init /\ [][Next]_vars

\* The ledger with its monitoring tick, on prices that move past the
\* stop-loss and take-profit levels: a large short on one asset, a small
\* long on the other.
CloseOrders == { [asset |-> "BTC", side |-> "SHORT", size |-> 1000],
                 [asset |-> "ETH", side |-> "LONG", size |-> 100] }
CloseUpdates == { [asset |-> "BTC", data |-> WideSnapshot],
                  [asset |-> "BTC", data |-> CrashSnapshot],
                  [asset |-> "ETH", data |-> WideSnapshot],
                  [asset |-> "ETH", data |-> CrashSnapshot],
                  [asset |-> "ETH", data |-> RallySnapshot] }

NextClose ==
    \/ \E o \in CloseOrders : OpenPosition(o.asset, o.side, o.size)
    \/ \E u \in CloseUpdates : UpdateMarketData(u.asset, u.data)
    \/ TEInitialize
    \/ TickFire
    \/ TickResume

SpecClose == Init /\ [][NextClose]_vars

\* The same, with calculateDrawdown called between the steps.
NextDrawdown ==
    \/ NextClose
    \/ CalculateDrawdown

SpecDrawdown == Init /\ [][NextDrawdown]_vars

\* The RiskManager's check of opened positions: a short of 900 at a bid of
\* 100 and a price of 100.1 leaves marginUsed 90000 and, once the tick has
\* valued the portfolio, totalValue 100000.
LeverageSnapshot == [price |-> 1001, bid |-> 1000, ask |-> 1002]
LeverageOrders == { [side |-> "SHORT", size |-> 900], [side |-> "LONG", size |-> 100] }

NextLeverage ==
    \/ \E o \in LeverageOrders : OpenPosition("BTC", o.side, o.size)
    \/ \E data \in {LeverageSnapshot, WideSnapshot} : UpdateMarketData("BTC", data)
    \/ TEInitialize
    \/ TickFire
    \/ TickResume
    \/ RMInitialize
    \/ \E id \in 1..MaxOpens : PositionOpened(id)

SpecLeverage == Init /\ [][NextLeverage]_vars

\* The ledger on a snapshot without spread, where the notional of an order
\* can be the whole cash.
FlatSnapshot == [price |-> 1000, bid |-> 1000, ask |-> 1000]

NextCash ==
    \/ \E asset \in Assets, side \in Sides, size \in Sizes : OpenPosition(asset, side, size)
    \/ \E asset \in Assets : ClosePosition(asset)
    \/ \E asset \in Assets, data \in {FlatSnapshot, TestSnapshot} :
          UpdateMarketData(asset, data)

SpecCash == Init /\ [][NextCash]_vars

\* RiskManager.assessOverallRisk on every riskScore: scores are in hundredths
\* of a point, Math.min(100, score) caps them at MaxScore points.
MaxScore == 100

\* score >= points as JavaScript compares: false for NaN, and for -Infinity
ScoreAtLeast(score, points) == score.kind = "number" /\ score.value >= points * 100

\* The thresholds taken as exclusive.
assessOverallRisk_Exclusive(score) ==
    IF score.kind = "number" /\ score.value > 8000 THEN "CRITICAL"
    ELSE IF score.kind = "number" /\ score.value > 6000 THEN "HIGH"
    ELSE IF score.kind = "number" /\ score.value > 4000 THEN "MEDIUM"
    ELSE IF score.kind = "number" /\ score.value > 2000 THEN "LOW"
    ELSE "VERY_LOW"

assessOverallRisk(score) ==
    IF ScoreAtLeast(score, 80) THEN "CRITICAL"
    ELSE IF ScoreAtLeast(score, 60) THEN "HIGH"
    ELSE IF ScoreAtLeast(score, 40) THEN "MEDIUM"
    ELSE IF ScoreAtLeast(score, 20) THEN "LOW"
    ELSE "VERY_LOW"

\* Whole points, the hundredth under each threshold, NaN and -Infinity
RiskScores ==
    {Number(p * 100) : p \in 0..MaxScore}
        \cup {Number(t * 100 - 1) : t \in {20, 40, 60, 80}}
        \cup {NaN, NegInfinity}

\* performRiskAssessment's overallRisk for a riskState.riskScore
AssessOverallRisk(score) ==
    /\ lastCall' = [Call("assessOverallRisk", "-", "-", 0, 0, assessOverallRisk(score), "-")
                      EXCEPT !.score = score]
    /\ UNCHANGED <<priceHistory, params, webhook, marketData, ledger, teInit, teInterval, pcTick,
                   tickIter, rmInit, rmListeners, rmInterval, rmTimers,
                   monitoringActive, pcStop, stopIter, isRunning, pendingOpened,
                   ledgerSum, pendingClosed>>
    /\ alerts' = alertsAfter(alerts, lastCall')

NextAssess == \E score \in RiskScores : AssessOverallRisk(score)

SpecAssess == Init /\ [][NextAssess]_vars

\* The ledger and the RiskManager from its construction on, with the events
\* the ledger emits and the emergency stop.  The awaited alert of
\* initialize, of openPosition, of closePosition and of emergencyStop
\* completes, and a timer that is not cleared fires: weak fairness on the
\* steps they resume.
NotifyOrder == [side |-> "LONG", size |-> 100]

NextNotify ==
    \/ \E asset \in Assets : OpenPosition(asset, NotifyOrder.side, NotifyOrder.size)
    \/ \E asset \in Assets : ClosePosition(asset)
    \/ UpdateMarketData("BTC", WideSnapshot)
    \/ RMInitialize
    \/ RiskTick
    \/ \E id \in 1..MaxOpens : PositionOpened(id)
    \/ \E id \in 1..MaxOpens : PositionClosed(id)
    \/ EmergencyStopCall
    \/ EmergencyStopResume

SpecNotify ==
    /\ Init
    /\ [][NextNotify]_vars
    /\ WF_vars(RMInitialize)
    /\ WF_vars(RiskTick)
    /\ WF_vars(\E id \in 1..MaxOpens : PositionOpened(id))
    /\ WF_vars(\E id \in 1..MaxOpens : PositionClosed(id))
    /\ WF_vars(EmergencyStopResume)

\* The strategies on one asset whose price moves between 25 and 100, with
\* at most MaxPriceChanges moves in a history of at most MaxHistory points;
\* the other asset never receives a snapshot.
MaxHistory == 21
MaxPriceChanges == 1

SlumpSnapshot == [price |-> 250, bid |-> 245, ask |-> 255]
StrategySnapshots == {SlumpSnapshot, TestSnapshot}
Strategies == {"momentum", "breakout", "unknown_strategy"}
Signals == {"BUY", "SELL"}

PriceChanges(points) ==
    Cardinality({i \in 1..(Len(points) - 1) : points[i] # points[i + 1]})

NextStrategy ==
    \/ \E data \in StrategySnapshots :
          /\ Len(priceHistory["BTC"].points) < MaxHistory
          /\ PriceChanges(Append(priceHistory["BTC"].points, data.price)) <= MaxPriceChanges
          /\ UpdateMarketData("BTC", data)
    \/ \E asset \in Assets, strategy \in Strategies, signal \in Signals :
          ExecuteStrategy(asset, strategy, signal)
    \/ \E asset \in Assets : OpenPosition(asset, "LONG", 100)
    \/ \E asset \in Assets : ClosePosition(asset)

SpecStrategy == InitStrategy /\ [][NextStrategy]_vars

\* The strategies other than momentum that read indicators with a
\* minimum-sample fallback, on the same price histories.
IndicatorStrategies == {"mean_reversion", "breakout", "swing"}

NextIndicators ==
    \/ \E data \in StrategySnapshots :
          /\ Len(priceHistory["BTC"].points) < MaxHistory
          /\ PriceChanges(Append(priceHistory["BTC"].points, data.price)) <= MaxPriceChanges
          /\ UpdateMarketData("BTC", data)
    \/ \E strategy \in IndicatorStrategies, signal \in Signals :
          ExecuteStrategy("BTC", strategy, signal)

SpecIndicators == InitStrategy /\ [][NextIndicators]_vars

\* The price histories around the limit of 1000 points: the engine after
\* HistoryLimit - MaxOverflow updates of one asset (a first price of 25,
\* then 100) and none of the other, and updates of both from there.
MaxOverflow == 2

InitHistory ==
    /\ NoTrading
    /\ alerts = AlertsUnrecorded
    /\ marketData = [a \in Assets |-> IF a = "BTC" THEN TestSnapshot ELSE NoData]
    /\ priceHistory =
          [a \in Assets |->
             IF a = "BTC"
             THEN Recorded([i \in 1..(HistoryLimit - MaxOverflow) |->
                              IF i = 1 THEN SlumpSnapshot.price ELSE TestSnapshot.price],
                           HistoryLimit - MaxOverflow)
             ELSE Recorded(<<>>, 0)]
    /\ lastCall = Call("updateMarketData", "-", "-", 0, 0, "-", "-")
    /\ webhook = HooksIdle(WebhookMaxRetries)

NextHistory ==
    \/ \E data \in StrategySnapshots :
          /\ priceHistory["BTC"].pushes < HistoryLimit + MaxOverflow
          /\ UpdateMarketData("BTC", data)
    \/ \E data \in StrategySnapshots :
          /\ priceHistory["ETH"].pushes < MaxOverflow
          /\ UpdateMarketData("ETH", data)

SpecHistory == InitHistory /\ [][NextHistory]_vars

\* AlertSystem.logAlert alone, up to its first await: the list after 98
\* alerts (an ERROR, then INFO) and the calls from there past the limit.
AlertInputs == {"info", "WARNING", "ERROR"}

LogAlert(level) ==
    /\ lastCall' = Call("logAlert", "-", "-", 0, 0, level, "-")
    /\ UNCHANGED <<ledger, ledgerSum, pendingClosed, tickIter, stopIter>>
    /\ UNCHANGED <<priceHistory, params, webhook, marketData, teInit, teInterval, pcTick, rmInit,
                   rmListeners, rmInterval, rmTimers, monitoringActive, pcStop,
                   isRunning, pendingOpened>>
    /\ alerts' = alertsAfter(alerts, lastCall')

InitAlerts ==
    /\ NoTrading
    /\ marketData = [a \in Assets |-> NoData]
    /\ priceHistory = [a \in Assets |-> Unrecorded]
    /\ alerts = AlertsRecorded([i \in 1..(AlertLimit - MaxOverflow) |->
                                  [id |-> i, level |-> IF i = 1 THEN "ERROR" ELSE "INFO"]],
                               AlertLimit - MaxOverflow)
    /\ lastCall = Call("logAlert", "-", "-", 0, 0, "INFO", "-")
    /\ webhook = HooksIdle(WebhookMaxRetries)

NextAlerts ==
    \E level \in AlertInputs :
        /\ alerts.logged < AlertLimit + MaxOverflow
        /\ LogAlert(level)

SpecAlerts == InitAlerts /\ [][NextAlerts]_vars

\* notifyHooks(event, payload) on a registry: no URL, return; otherwise the
\* loop of every URL starts and issues its first fetch, and Promise.all
\* waits for them all.
MaxRetries == 3
FetchOutcomes == {"ok", "notOk", "rejected"}
\* hookA never answers ok.
OutcomesOf(url) == IF url = "hookA" THEN FetchOutcomes \ {"ok"} ELSE FetchOutcomes

HookLedgerUnchanged ==
    /\ UNCHANGED <<ledger, ledgerSum, pendingClosed, tickIter, stopIter>>
    /\ UNCHANGED <<priceHistory, params, marketData, teInit, teInterval, pcTick, rmInit,
                   rmListeners, rmInterval, rmTimers, monitoringActive, pcStop,
                   isRunning, pendingOpened, alerts>>

NotifyHooks(urls) ==
    /\ webhook.pc = "idle"
    /\ webhook' =
         IF urls = {} THEN [webhook EXCEPT !.pc = "returned"]
         ELSE [webhook EXCEPT
                 !.pc = "running",
                 !.calls = [u \in HookUrls |->
                              IF u \notin urls THEN NoDelivery
                              ELSE IF retryAllowed(0, webhook.maxRetries)
                              THEN [pc |-> "fetching", attempt |-> 0, fetches |-> 1,
                                    delivered |-> FALSE]
                              ELSE [NoDelivery EXCEPT !.pc = "done"]]]
    /\ lastCall' = Call("notifyHooks", "-", "-", 0, Cardinality(urls), "-", "called")
    /\ HookLedgerUnchanged

\* Promise.all resolves when no loop is left running
HooksSettled(calls) ==
    IF \A u \in HookUrls : calls[u].pc \in {"none", "done"} THEN "returned" ELSE "running"

\* The awaited fetch of a URL settles: an ok response ends the loop; any
\* other response, or a rejection, counts an attempt, and the loop waits
\* for the retry delay if another attempt is allowed.
FetchSettles(url, outcome) ==
    /\ webhook.pc = "running"
    /\ webhook.calls[url].pc = "fetching"
    /\ LET call == webhook.calls[url]
           attempt == call.attempt + 1
           next == IF outcome = "ok"
                   THEN [call EXCEPT !.pc = "done", !.delivered = TRUE]
                   ELSE IF retryAllowed(attempt, webhook.maxRetries)
                   THEN [call EXCEPT !.pc = "waiting", !.attempt = attempt]
                   ELSE [call EXCEPT !.pc = "done", !.attempt = attempt]
           calls == [webhook.calls EXCEPT ![url] = next]
       IN  webhook' = [webhook EXCEPT !.calls = calls, !.pc = HooksSettled(calls)]
    /\ lastCall' = Call("notifyHooks", url, "-", 0, 0, "-", outcome)
    /\ HookLedgerUnchanged

\* The retry delay of a URL elapses: the loop issues the next fetch
RetryTimer(url) ==
    /\ webhook.pc = "running"
    /\ webhook.calls[url].pc = "waiting"
    /\ webhook' = [webhook EXCEPT !.calls[url].pc = "fetching",
                                  !.calls[url].fetches = @ + 1]
    /\ lastCall' = Call("notifyHooks", url, "-", 0, 0, "-", "retry")
    /\ HookLedgerUnchanged

InitHooks ==
    /\ NoTrading
    /\ marketData = [a \in Assets |-> NoData]
    /\ priceHistory = [a \in Assets |-> Unrecorded]
    /\ alerts = AlertsUnrecorded
    /\ webhook \in {HooksIdle(n) : n \in 0..MaxRetries}
    /\ lastCall = Call("constructor", "-", "-", 0, 0, "INFO", "initialized")

NextHooks ==
    \/ \E urls \in SUBSET HookUrls : NotifyHooks(urls)
    \/ \E url \in HookUrls, outcome \in FetchOutcomes :
          outcome \in OutcomesOf(url) /\ FetchSettles(url, outcome)
    \/ \E url \in HookUrls : RetryTimer(url)

\* Every fetch settles, with a response or a rejection, and every retry
\* delay elapses.
SpecHooks ==
    /\ InitHooks
    /\ [][NextHooks]_vars
    /\ \A url \in HookUrls :
         /\ WF_vars(\E outcome \in OutcomesOf(url) : FetchSettles(url, outcome))
         /\ WF_vars(RetryTimer(url))

----------------------------------------------------------------------------
\* Properties.

OpenAssets == {a \in Assets : positions[a] # 0}
EntryNotional(id) == Value(heap[id].size, heap[id].entryPrice)
Ids == 1..Len(heap)

\* C1: as long as no asset was opened while it had an Open position, cash is
\* the initial cash minus (notional + fee) of every open plus (exit value -
\* fee) of every close; rejected opens and not-found closes leave it as is.
C1_CashAccounting ==
    ~ledgerSum.duplicate =>
        portfolio.cash = InitialCash - ledgerSum.opens + ledgerSum.closes

\* Two positions on different assets were opened and both were closed.
C1_Witness ==
    /\ ~ledgerSum.duplicate
    /\ Len(heap) = 2
    /\ heap[1].asset # heap[2].asset
    /\ heap[1].status = "CLOSED" /\ heap[2].status = "CLOSED"
    /\ portfolio.cash = InitialCash - ledgerSum.opens + ledgerSum.closes
    /\ portfolio.cash # InitialCash

\* C2: marginUsed is the sum of the entry notionals of the positions in the
\* active set, so it is 0 when the set is empty.
C2_MarginTracksOpenPositions ==
    portfolio.marginUsed =
        SumOver(OpenAssets, [a \in Assets |->
                               IF positions[a] # 0 THEN EntryNotional(positions[a]) ELSE 0])

\* C3: a position for which checkPositionRisk yields a CRITICAL finding is
\* not one the ledger has committed (heap holds exactly the committed ones).
C3_CriticalFindingBlocksOpen ==
    (lastCall.op = "positionOpened" /\ lastCall.level = "CRITICAL")
        => lastCall.result \notin Ids

\* C4: when emergencyStop completes, the active set is empty and no risk
\* timer is scheduled.
C4_StopHaltsEverything ==
    (lastCall.op = "emergencyStop" /\ lastCall.message = "emergencyStop emitted")
        => (OpenAssets = {} /\ rmTimers = {})

\* C5: once emergencyStop has completed and no risk timer is scheduled, no
\* later step schedules one.
C5_StoppedIsTerminal ==
    [][(pcStop = "done" /\ rmTimers = {}) => rmTimers' = {}]_vars

\* C6: an open whose notional (size * entry price) exceeds cash returns null
\* with a WARNING and leaves the active set, cash and marginUsed unchanged.
C6_InsufficientFundsRejected ==
    [][(/\ lastCall'.op = "openPosition"
        /\ marketData[lastCall'.asset] # NoData
        /\ Value(lastCall'.size,
                 EntryPrice(marketData[lastCall'.asset], lastCall'.side)) > portfolio.cash)
       => (/\ lastCall'.result = 0
           /\ lastCall'.level = "WARNING"
           /\ positions' = positions
           /\ portfolio' = portfolio)]_vars

\* An open passed the risk limits and was rejected for its notional.
C6_Witness ==
    /\ lastCall.op = "openPosition"
    /\ lastCall.result = 0
    /\ lastCall.message = "Insufficient funds"
    /\ Value(lastCall.size,
             EntryPrice(marketData[lastCall.asset], lastCall.side)) > portfolio.cash

\* C7: a position is in the active set exactly while its status is OPEN, it
\* is closed at most once, and CLOSED means closed exactly once.
C7_OpenIffActive ==
    /\ \A id \in Ids :
         /\ heap[id].status = "OPEN" <=> positions[heap[id].asset] = id
         /\ heap[id].status = "CLOSED" <=> heap[id].closes = 1
         /\ heap[id].closes <= 1
    /\ \A a \in OpenAssets : heap[positions[a]].asset = a

\* C8: while emergencyStop is between its forced closes, or a ledger tick is
\* between its checks, only that operation changes the ledger.
C8_Linearized ==
    [][/\ (pcStop = "loop" /\ ledger' # ledger) => lastCall'.op = "emergencyStop"
       /\ (pcTick = "loop" /\ ledger' # ledger) => lastCall'.op = "monitoringTick"]_vars

\* C9 as stated: an open whose size * entry price exceeds maxPositionSize *
\* cash is rejected.
C9_EntryNotionalLimit ==
    [][(/\ lastCall'.op = "openPosition"
        /\ marketData[lastCall'.asset] # NoData
        /\ PositionSizeLimitExceeded(
               Value(lastCall'.size,
                     EntryPrice(marketData[lastCall'.asset], lastCall'.side)),
               portfolio.cash, params))
       => (/\ lastCall'.result = 0
           /\ positions' = positions
           /\ portfolio' = portfolio)]_vars

\* C9 amended: an open whose size * snapshot price exceeds maxPositionSize *
\* cash is rejected.
C9_PriceNotionalLimit ==
    [][(/\ lastCall'.op = "openPosition"
        /\ marketData[lastCall'.asset] # NoData
        /\ Value(lastCall'.size, marketData[lastCall'.asset].price)
               * params.maxPositionSize.den
             > portfolio.cash * params.maxPositionSize.num)
       => (/\ lastCall'.result = 0
           /\ positions' = positions
           /\ portfolio' = portfolio)]_vars

\* An open of 10 times the limit was rejected by the risk limits.
C9_Witness ==
    /\ lastCall.op = "openPosition"
    /\ lastCall.result = 0
    /\ lastCall.message = "Risk limit exceeded"
    /\ params.maxPositionSize = [num |-> 1, den |-> 10]
    /\ Value(lastCall.size, marketData[lastCall.asset].price) * 10 > portfolio.cash

\* C10: from the initial cash, LONG 100 at ask 100.5 leaves cash 89939.95 and
\* marginUsed 10050; closed at bid 99.5 the exit fee is 9.95, pnl -109.95 and
\* cash 99880.00.
C10_FeeScenario ==
    (/\ Len(heap) = 1
     /\ heap[1].side = "LONG" /\ heap[1].size = 100 /\ heap[1].entryPrice = 1005)
    => IF heap[1].status = "OPEN"
       THEN portfolio.cash = 89939950 /\ portfolio.marginUsed = 10050000
       ELSE heap[1].exitPrice = 995
            => (heap[1].pnl = -109950 /\ portfolio.cash = 99880000)

\* C11: closePosition on an asset with no Open position returns null with a
\* WARNING, raises nothing, and leaves cash, marginUsed, the active set and
\* the performance statistics unchanged.
C11_CloseNotFound ==
    [][(lastCall'.op = "closePosition" /\ positions[lastCall'.asset] = 0)
       => (/\ lastCall'.result = 0
           /\ lastCall'.level = "WARNING"
           /\ lastCall'.message = "No position found"
           /\ positions' = positions
           /\ portfolio' = portfolio
           /\ performance' = performance)]_vars

\* A close found nothing on one asset while the other asset has a position
\* Open and a trade has already been counted.
C11_Witness ==
    /\ lastCall.op = "closePosition"
    /\ lastCall.result = 0
    /\ lastCall.message = "No position found"
    /\ positions[lastCall.asset] = 0
    /\ OpenAssets # {}
    /\ performance.totalTrades = 1

\* C12: shouldClosePosition is true exactly when the snapshot price is at or
\* past the stop-loss or at or past the take-profit on the position's side:
\* LONG and (price <= stopLoss or price >= takeProfit), or SHORT and
\* (price >= stopLoss or price <= takeProfit).  Checked on every snapshot an
\* Open position meets.
C12_ShouldCloseIff ==
    [][\A a \in Assets :
         positions[a] # 0 =>
           LET position == heap[positions[a]]
               price == marketData'[a].price * 100
           IN  shouldClosePosition(marketData'[a], position)
               <=> \/ /\ position.side = "LONG"
                      /\ (price <= position.stopLoss \/ price >= position.takeProfit)
                   \/ /\ position.side = "SHORT"
                      /\ (price >= position.stopLoss \/ price <= position.takeProfit)]_vars

\* A LONG position met a price at or above its take-profit and was closed,
\* while the other asset's position, not at either level, is still Open.
C12_Witness ==
    \E id \in Ids :
      /\ heap[id].side = "LONG"
      /\ heap[id].status = "CLOSED"
      /\ marketData[heap[id].asset].price * 100 >= heap[id].takeProfit
      /\ \E b \in OpenAssets : ~shouldClosePosition(marketData[b], heap[positions[b]])

C14_TickClosesOnlyBreaches ==
    [][lastCall'.op = "monitoringTick" =>
         LET iter == IF pcTick = "idle" THEN 0 ELSE tickIter
             breach(j) == shouldClosePosition(marketData[order[j]],
                                              heap[positions[order[j]]])
         IN  IF lastCall'.result = 1
             THEN \E j \in (iter + 1)..Len(order) :
                    /\ lastCall'.asset = order[j]
                    /\ breach(j)
                    /\ \A k \in (iter + 1)..(j - 1) : ~breach(k)
                    /\ positions' = [positions EXCEPT ![order[j]] = 0]
             ELSE /\ \A j \in (iter + 1)..Len(order) : ~breach(j)
                  /\ positions' = positions
                  /\ heap' = heap]_vars

\* A tick reported the drawdown as CRITICAL and a position is still Open.
C14_Witness ==
    /\ lastCall.op = "monitoringTick"
    /\ lastCall.level = "CRITICAL"
    /\ lastCall.message = "Maximum drawdown exceeded"
    /\ OpenAssets # {}

\* C15: every riskScore that calculateRiskScore produces is a number from 0
\* to 100 points, also with no position Open and with totalValue 0.
C15_RiskScoreInRange ==
    lastCall.score # NoScore =>
        /\ lastCall.score.kind = "number"
        /\ lastCall.score.value >= 0
        /\ lastCall.score.value <= 10000

\* C16: when a close failed during emergencyStop, the operation still
\* completes with a close attempted for every other position, so that none
\* is left Open, and with the risk-monitoring loop halted.
C16_StopSurvivesCloseFailure ==
    (/\ lastCall.op = "emergencyStop"
     /\ lastCall.message = "emergencyStop emitted"
     /\ lastCall.result = 1)
        => (/\ OpenAssets = {}
            /\ ~monitoringActive
            /\ rmTimers = {})

\* C17: after emergencyStop has emitted its notification, no step of a
\* risk-monitoring tick runs.
C17_NoTickAfterStop ==
    [][pcStop = "done" => lastCall'.op # "riskTick"]_vars

\* C18: executeStrategy with a name outside the five strategies reports an
\* ERROR, returns null, and leaves positions, cash and marginUsed as they
\* were (the model has no raised outcome: every failure is caught inside).
C18_UnknownStrategyReported ==
    [][(lastCall'.op = "executeStrategy" /\ lastCall'.strategy \notin KnownStrategies)
          => (/\ lastCall'.level = "ERROR"
              /\ lastCall'.result = ReturnedNull
              /\ positions' = positions
              /\ portfolio'.cash = portfolio.cash
              /\ portfolio'.marginUsed = portfolio.marginUsed)]_vars

C20_MomentumNeedsHistory ==
    [][(/\ lastCall'.op = "executeStrategy"
        /\ lastCall'.strategy = "momentum"
        /\ Len(priceHistory[lastCall'.asset].points) < 20)
          => (/\ Len(heap') = Len(heap)
              /\ pendingOpened' = pendingOpened
              /\ lastCall'.side = "-")]_vars

\* After 19 points that rose from 25 to 100 within the older window, the
\* momentum strategy was given BUY and did nothing.
C20_Witness ==
    /\ lastCall.op = "executeStrategy"
    /\ lastCall.strategy = "momentum"
    /\ lastCall.signal = "BUY"
    /\ lastCall.result = ReturnedUndefined
    /\ Len(priceHistory[lastCall.asset].points) = 19
    /\ priceHistory[lastCall.asset].points[1] = 250
    /\ priceHistory[lastCall.asset].points[10] = 1000

\* C21: mean_reversion, breakout and swing on an asset with fewer than 20
\* history points open no position, whatever the signal.
C21_OtherStrategiesNeedHistory ==
    [][(/\ lastCall'.op = "executeStrategy"
        /\ lastCall'.strategy \in {"mean_reversion", "breakout", "swing"}
        /\ Len(priceHistory[lastCall'.asset].points) < 20)
          => (/\ Len(heap') = Len(heap)
              /\ pendingOpened' = pendingOpened)]_vars

\* C22: every updateMarketData call for an asset appends its price at the
\* end of that asset's history and, past 1000 points, evicts the oldest one,
\* so that after n calls the history is the last min(n, 1000) prices in
\* arrival order; the histories of the other assets stay as they are.
C22_HistoryFifo ==
    [][/\ Cardinality({a \in Assets : priceHistory'[a] # priceHistory[a]}) <= 1
       /\ \A a \in Assets :
            LET old == priceHistory[a]
                new == priceHistory'[a]
                shift == Len(old.points) + 1 - Len(new.points)
            IN  new # old =>
                  /\ new.pushes = old.pushes + 1
                  /\ Len(new.points) = IF new.pushes < 1000 THEN new.pushes ELSE 1000
                  /\ new.points[Len(new.points)] = marketData'[a].price
                  /\ \A i \in 1..(Len(new.points) - 1) :
                        new.points[i] = old.points[i + shift]]_vars

\* One asset has received more than 1000 updates and holds 1000 points, its
\* first price of 25 evicted and the newest price last, while the other has
\* received one.
C22_Witness ==
    /\ priceHistory["BTC"].pushes > 1000
    /\ Len(priceHistory["BTC"].points) = 1000
    /\ priceHistory["BTC"].points[1] = 1000
    /\ priceHistory["BTC"].points[1000] = 250
    /\ priceHistory["ETH"].pushes = 1

\* C23: the check of an opened position reports CRITICAL exactly when the
\* leverage finding is among its findings, that is when marginUsed > 0 and
\* totalValue / (totalValue - marginUsed) > maxLeverage (leverage is 1 when
\* marginUsed is 0); the size, concentration, correlation and liquidity
\* findings never make it CRITICAL; and totalValue 100000 with marginUsed
\* 90000 is CRITICAL.
C23_OnlyLeverageBlocks ==
    (lastCall.op = "positionOpened" /\ lastCall.message # "no listener") =>
        LET tv == portfolio.totalValue
            mu == portfolio.marginUsed
            over == /\ mu > 0
                    /\ \/ tv - mu > 0 /\ tv > 5 * (tv - mu)
                       \/ tv - mu = 0 /\ tv > 0
                       \/ tv - mu < 0 /\ tv < 5 * (tv - mu)
        IN  /\ (lastCall.level = "CRITICAL") <=> over
            /\ ("LEVERAGE" \in lastCall.risks) <=> over
            /\ (tv = 100000000 /\ mu = 90000000) => lastCall.level = "CRITICAL"

\* The scenario of leverage 10 (totalValue 100000, marginUsed 90000) was
\* checked, with the CRITICAL leverage finding.
C23_Witness ==
    /\ lastCall.op = "positionOpened"
    /\ portfolio.totalValue = 100000000
    /\ portfolio.marginUsed = 90000000
    /\ lastCall.level = "CRITICAL"
    /\ "LEVERAGE" \in lastCall.risks

\* C24: a position is created with entryPrice the ask (LONG) or the bid
\* (SHORT) of the asset's snapshot at the open, and every close writes
\* exitPrice the bid (LONG) or the ask (SHORT) of the snapshot the close
\* works on.
C24_CrossesSpread ==
    [][\A id \in 1..Len(heap') :
          LET position == heap'[id] IN
          /\ id > Len(heap) =>
                position.entryPrice =
                    IF position.side = "LONG" THEN marketData[position.asset].ask
                    ELSE marketData[position.asset].bid
          /\ (id <= Len(heap) /\ position.closes > heap[id].closes) =>
                position.exitPrice =
                    IF position.side = "LONG" THEN marketData'[position.asset].bid
                    ELSE marketData'[position.asset].ask]_vars

\* A LONG entered at the ask of one snapshot (100.5) was closed at the bid
\* of a later one (94), and a SHORT entered at a bid was closed at an ask.
C24_Witness ==
    /\ Len(heap) = 2
    /\ heap[1].side = "LONG" /\ heap[1].status = "CLOSED"
    /\ heap[1].entryPrice = TestSnapshot.ask /\ heap[1].exitPrice = WideSnapshot.bid
    /\ heap[2].side = "SHORT" /\ heap[2].status = "CLOSED"
    /\ heap[2].entryPrice = marketData[heap[2].asset].bid
    /\ heap[2].exitPrice = marketData[heap[2].asset].ask

\* C25: a position is created with stopLoss = entryPrice * (1 - 5%) and
\* takeProfit = entryPrice * (1 + 10%) for LONG, mirrored for SHORT, and no
\* step changes the stopLoss, takeProfit, size, side or entryPrice of a
\* position that is Open.
C25_LevelsFixedAtOpen ==
    [][\A id \in 1..Len(heap') :
          LET position == heap'[id]
              e == position.entryPrice
          IN
          /\ id > Len(heap) =>
                /\ position.stopLoss =
                      IF position.side = "LONG" THEN e * 95 ELSE e * 105
                /\ position.takeProfit =
                      IF position.side = "LONG" THEN e * 110 ELSE e * 90
          /\ (id <= Len(heap) /\ heap[id].status = "OPEN") =>
                /\ position.stopLoss = heap[id].stopLoss
                /\ position.takeProfit = heap[id].takeProfit
                /\ position.size = heap[id].size
                /\ position.side = heap[id].side
                /\ position.entryPrice = heap[id].entryPrice]_vars

\* A short is still Open, with its levels as computed at the open, after
\* the ledger's tick has valued the portfolio and a risk-monitoring tick
\* has assessed it.
C25_Witness ==
    /\ lastCall.op = "riskTick"
    /\ portfolio.totalValue > 0
    /\ Len(heap) >= 1
    /\ heap[1].status = "OPEN"
    /\ heap[1].side = "SHORT"
    /\ heap[1].stopLoss = heap[1].entryPrice * 105
    /\ heap[1].takeProfit = heap[1].entryPrice * 90

\* C26: totalTrades = winningTrades + losingTrades is the number of closed
\* positions, winningTrades counts those whose net pnl is > 0, totalPnL is
\* the sum of their net pnl, and once a trade is counted winRate is
\* winningTrades / totalTrades, between 0 and 1.
C26_PerformanceStats ==
    LET closed == {id \in Ids : heap[id].status = "CLOSED"} IN
    /\ performance.totalTrades = Cardinality(closed)
    /\ performance.totalTrades = performance.winningTrades + performance.losingTrades
    /\ performance.winningTrades = Cardinality({id \in closed : heap[id].pnl > 0})
    /\ performance.totalPnL = SumOver(closed, [id \in Ids |-> heap[id].pnl])
    /\ performance.totalTrades > 0 =>
          /\ performance.winRate.num = performance.winningTrades
          /\ performance.winRate.den = performance.totalTrades
          /\ 0 <= performance.winRate.num
          /\ performance.winRate.num <= performance.winRate.den

\* One winning and one losing close were counted.
C26_Witness ==
    /\ performance.totalTrades = 2
    /\ performance.winningTrades = 1
    /\ performance.losingTrades = 1
    /\ \E id \in Ids : heap[id].status = "CLOSED" /\ heap[id].pnl > 0
    /\ \E id \in Ids : heap[id].status = "CLOSED" /\ heap[id].pnl < 0


\* C27: every successful open and every successful close, those made right
\* after the RiskManager is constructed included, is eventually followed by
\* a recomputation of RiskState and a risk assessment by the RiskManager:
\* by its listener for the event or by its monitoring timer.
C27_Recomputed ==
    \/ lastCall.op = "riskTick"
    \/ lastCall.op \in {"positionOpened", "positionClosed"}
       /\ lastCall.message # "no listener"

C27_OpensAndClosesReassessed ==
    (pendingOpened # {} \/ pendingClosed # {}) ~> C27_Recomputed


\* C28: assessOverallRisk gives exactly one of the five levels, VERY_LOW
\* under 20, LOW from 20 to under 40, MEDIUM from 40 to under 60, HIGH from
\* 60 to under 80 and CRITICAL from 80, and of two scores the larger never
\* gets the lower level.
RiskLevelRank ==
    [VERY_LOW |-> 0, LOW |-> 1, MEDIUM |-> 2, HIGH |-> 3, CRITICAL |-> 4]

C28_LevelOfScore(call) ==
    LET v == call.score.value
        level == call.level
    IN  /\ level \in DOMAIN RiskLevelRank
        /\ call.score.kind = "number" =>
              /\ v < 2000 => level = "VERY_LOW"
              /\ (2000 <= v /\ v < 4000) => level = "LOW"
              /\ (4000 <= v /\ v < 6000) => level = "MEDIUM"
              /\ (6000 <= v /\ v < 8000) => level = "HIGH"
              /\ 8000 <= v => level = "CRITICAL"

C28_RiskLevelBands ==
    [][lastCall'.op = "assessOverallRisk" =>
         /\ C28_LevelOfScore(lastCall')
         /\ (/\ lastCall.op = "assessOverallRisk"
             /\ lastCall.score.kind = "number"
             /\ lastCall'.score.kind = "number"
             /\ lastCall.score.value <= lastCall'.score.value) =>
                RiskLevelRank[lastCall.level] <= RiskLevelRank[lastCall'.level]]_vars

\* A score on the MEDIUM threshold has been assessed
C28_Witness ==
    /\ lastCall.op = "assessOverallRisk"
    /\ lastCall.score = Number(4000)
    /\ lastCall.level = "MEDIUM"


\* C29: after updateMarketData has moved the price of an asset with an Open
\* LONG position to or below its stopLoss, or to or above its takeProfit,
\* shouldClosePosition(asset, positions.get(asset)) returns true.
C29_BreachSeenAfterUpdate ==
    [][\A a \in Assets :
         (/\ positions[a] # 0
          /\ heap[positions[a]].side = "LONG"
          /\ lastCall'.op = "updateMarketData"
          /\ marketData'[a] # marketData[a]
          /\ \/ marketData'[a].price * 100 <= heap[positions[a]].stopLoss
             \/ marketData'[a].price * 100 >= heap[positions[a]].takeProfit)
         => shouldCloseOf(a)' = "true"]_vars


\* C30: in every state, that of a freshly constructed engine included,
\* calculateDrawdown returns (peak - current) / peak, a value from 0 to 1,
\* and portfolio.peakValue is the running maximum of totalValue and never
\* decreases.
C30_DrawdownInUnitRange ==
    [][/\ portfolio'.peakValue >= portfolio.peakValue
       /\ lastCall'.op = "calculateDrawdown" =>
             LET d == lastCall'.drawdown IN
             /\ d.kind = "number"
             /\ portfolio'.peakValue >= portfolio'.totalValue
             /\ d.den = portfolio'.peakValue
             /\ d.num = portfolio'.peakValue - portfolio'.totalValue
             /\ d.den > 0
             /\ 0 <= d.num
             /\ d.num <= d.den]_vars


\* C31: the size calculatePositionSize returns is at least minOrderSize and,
\* bought at the ask, costs at most cash * maxPositionSize.
C31_SizeWithinLimit ==
    [][(lastCall'.op = "executeStrategy" /\ lastCall'.size # 0) =>
          LET size == lastCall'.size
              ask == marketData[lastCall'.asset].ask
          IN  /\ size >= MinOrderSize
              /\ Value(size, ask) * params.maxPositionSize.den
                    <= portfolio.cash * params.maxPositionSize.num]_vars


\* C32: a successful openPosition on an asset that has an Open position
\* replaces the entry of the active set without closing it: the earlier
\* position stays as it was, status OPEN, then and ever after; cash is only
\* debited, marginUsed holds both notionals, and PerformanceStats records no
\* close.
C32_DuplicateOpenReplaces ==
    [][/\ \A a \in Assets :
            (positions[a] # 0 /\ positions'[a] \notin {0, positions[a]}) =>
               LET earlier == heap[positions[a]]
                   later == heap'[positions'[a]]
                   notional == Value(later.size, later.entryPrice)
               IN  /\ heap'[positions[a]] = earlier
                   /\ earlier.status = "OPEN"
                   /\ portfolio'.cash = portfolio.cash - notional - later.fees
                   /\ portfolio'.marginUsed = portfolio.marginUsed + notional
                   /\ portfolio'.marginUsed
                         >= Value(earlier.size, earlier.entryPrice) + notional
                   /\ performance' = performance
       /\ \A id \in 1..Len(heap) :
            (heap[id].status = "OPEN" /\ positions[heap[id].asset] # id) =>
               heap'[id] = heap[id]]_vars

\* A second position was opened on the asset of a position that is still OPEN
C32_Witness ==
    /\ lastCall.op = "openPosition"
    /\ lastCall.result = 1
    /\ \E id \in 1..Len(heap) :
         /\ heap[id].status = "OPEN"
         /\ heap[id].asset = lastCall.asset
         /\ positions[lastCall.asset] \notin {0, id}


\* C33: a positionOpened notification is delivered while the notified
\* position is still the Open position of its asset, and a positionClosed
\* notification while its asset has no Open position and cash and
\* marginUsed are those the close left: no other ledger operation takes
\* effect between the commit and the delivery.
C33_DeliveredBeforeOtherOperations ==
    [][/\ lastCall'.op = "positionOpened" =>
            LET id == lastCall'.result IN
            /\ heap[id].status = "OPEN"
            /\ positions[heap[id].asset] = id
       /\ lastCall'.op = "positionClosed" =>
            positions[heap[lastCall'.result].asset] = 0
       /\ (pendingClosed # {} /\ lastCall'.op # "positionClosed") =>
            /\ portfolio'.cash = portfolio.cash
            /\ portfolio'.marginUsed = portfolio.marginUsed]_vars


\* C34: after every successful closePosition, and after every monitoring
\* tick of the ledger, portfolio.totalValue is cash plus size * current
\* price of the positions of the active set; the position just closed is
\* not counted.
C34_TotalValueOfOpenPositions ==
    (\/ lastCall.message = "Closed position"
     \/ lastCall.op = "monitoringTick" /\ pcTick = "idle")
    => portfolio.totalValue
         = portfolio.cash
           + SumOver({a \in Assets : positions[a] # 0},
                     [a \in Assets |->
                        IF positions[a] # 0
                        THEN Value(heap[positions[a]].size, marketData[a].price)
                        ELSE 0])


\* C35: at most one monitoring timer of the RiskManager is live at any time
\* (the TradingEngine's only timer here is the one initialize schedules),
\* and once stopMonitoring has returned, the handle null, no risk-monitoring
\* tick fires again.
C35_OneTimerAndNoneAfterStop ==
    [][/\ Cardinality(rmTimers') <= 1
       /\ (pcStop = "done" /\ rmInterval = 0) => lastCall'.op # "riskTick"]_vars


\* C36: portfolio.cash is never negative: every accepted open leaves
\* cash >= 0 after the notional and the fee are deducted.
C36_CashNeverNegative == portfolio.cash >= 0


\* C37: after updateRiskMetrics, RiskState.dailyPnL is the sum of the net
\* pnl of the positions closed on the current day (every close of a
\* behaviour is on one day: the total of PerformanceStats), negative after
\* a losing close.  (currentDrawdown, read from the same absent history, is
\* 0 as well; the valuations it should range over are not recorded.)
C37_MetricsUpdated ==
    \/ lastCall.op = "riskTick"
    \/ lastCall.op \in {"positionOpened", "positionClosed"} /\ lastCall.score # NoScore

C37_RiskStateReflectsLedger ==
    C37_MetricsUpdated =>
        /\ dailyPnL = performance.totalPnL
        /\ performance.losingTrades > 0 /\ performance.winningTrades = 0 => dailyPnL < 0


\* C38: once emergencyStop has completed, every openPosition and
\* executeStrategy is rejected and an empty active set stays empty.
C38_NoTradingAfterStop ==
    [][pcStop = "done" =>
         /\ lastCall'.op = "openPosition" => lastCall'.result = 0
         /\ lastCall'.op = "executeStrategy" => lastCall'.result # ReturnedPosition
         /\ (\A a \in Assets : positions[a] = 0) =>
               (\A a \in Assets : positions'[a] = 0)]_vars


\* C39: every logAlert call appends its alert, level in upper case, and,
\* past 100 alerts, evicts the oldest, so that the AlertSystem holds the
\* last min(n, 100) alerts in arrival order; getActiveAlerts(level) is the
\* held alerts of that level, in order, and getAlertStats().total is the sum
\* of its byLevel counts.
C39_AlertsFifo ==
    [][alerts' # alerts =>
         LET old == alerts
             new == alerts'
             shift == Len(old.held) + 1 - Len(new.held)
             stats == getAlertStats(new)
         IN  /\ new.logged = old.logged + 1
             /\ Len(new.held) = IF new.logged < 100 THEN new.logged ELSE 100
             /\ new.held[Len(new.held)].id = new.logged
             /\ new.held[Len(new.held)].level \in {"INFO", "WARNING", "ERROR"}
             /\ lastCall'.level \in {"INFO", "WARNING", "ERROR"} =>
                   new.held[Len(new.held)].level = lastCall'.level
             /\ \A i \in 1..(Len(new.held) - 1) : new.held[i] = old.held[i + shift]
             /\ \A level \in {"INFO", "WARNING", "ERROR"} :
                   LET got == getActiveAlerts(new, level)
                       ids == {new.held[i].id : i \in {j \in 1..Len(new.held) :
                                                          new.held[j].level = level}}
                   IN  /\ {got[i].id : i \in 1..Len(got)} = ids
                       /\ Len(got) = Cardinality(ids)
                       /\ \A i \in 1..(Len(got) - 1) : got[i].id < got[i + 1].id
             /\ getActiveAlerts(new, "null") = new.held
             /\ stats.total = SumOver(DOMAIN stats.byLevel, stats.byLevel)
             /\ stats.total = Len(new.held)]_vars

\* More than 100 alerts were logged: 100 are held, the first one (the
\* ERROR) evicted, the newest last.
C39_Witness ==
    /\ alerts.recorded
    /\ alerts.logged > 100
    /\ Len(alerts.held) = 100
    /\ alerts.held[1].id = alerts.logged - 99
    /\ alerts.held[100].id = alerts.logged
    /\ getActiveAlerts(alerts, "ERROR") = <<>>


\* C40: a notifyHooks call makes at most webhookMaxRetries + 1 delivery
\* attempts to each hook URL and none after the URL's first ok response;
\* the loops of the URLs advance one by one without touching each other,
\* and the call ends: a URL that always fails keeps no other URL from its
\* delivery.
C40_HookDeliveryTerminates ==
    /\ [](\A u \in HookUrls : webhook.calls[u].fetches <= webhook.maxRetries + 1)
    /\ [][\A u \in HookUrls :
            /\ webhook.calls[u].delivered => webhook'.calls[u] = webhook.calls[u]
            /\ (webhook.pc = "running" /\ lastCall'.asset # u) =>
                  webhook'.calls[u] = webhook.calls[u]]_vars
    /\ (webhook.pc = "running") ~> (webhook.pc = "returned")
    /\ \A u \in HookUrls :
         (webhook.calls[u].pc = "fetching") ~> (webhook.calls[u].pc = "done")

\* The call has returned: hookA used up every attempt without an ok, and
\* hookB was delivered on a retry.
C40_Witness ==
    /\ webhook.pc = "returned"
    /\ webhook.maxRetries >= 1
    /\ webhook.calls["hookA"].fetches = webhook.maxRetries + 1
    /\ ~webhook.calls["hookA"].delivered
    /\ webhook.calls["hookB"].delivered
    /\ webhook.calls["hookB"].fetches >= 2

====
